---- MODULE Spec2Model ----
(***************************************************************************)
(* Shared-memory replication core of AdaptorPrototypeMk4: the change       *)
(* tracker (change_tracking.cpp), the per-region synchronizer thread and   *)
(* the receive thread (network_sync.cpp).                                  *)
(*                                                                         *)
(* Peer A is the sending side (producers, memorySyncThreadFunc), peer B    *)
(* the receiving side (receiveThreadFunc).  A region is an array of 8-byte *)
(* words; offsets and sizes are counted in words.  MemoryLayout occupies   *)
(* the first four words: version, data, last_modified, dirty.              *)
(***************************************************************************)
EXTENDS Integers, Sequences, FiniteSets, TLC

\* ------------------------------------------------------------ constants

UPDATE_TIMEOUT_MS == 5000

\* MemoryLayout, one word per field (memory_layout.h)
OffVersion == 0
OffData == 1
OffLastModified == 2
OffDirty == 3
SizeofMemoryLayout == 4
\* sync_message.h: the capacity of SyncMessage.data, in words; larger than a
\* MemoryLayout, as 1024 bytes are
MAX_SYNC_DATA_SIZE == 6

\* main.cpp initializePrimaryMemory: memory->version = 1
InitialVersion == 1

\* generateUniqueId: tick << 32 | rand, scaled to tick * TickShift + rand
TickShift == 4

MSG_SINGLE_UPDATE == "SINGLE"
MSG_START_UPDATE == "START"
MSG_UPDATE_CHUNK == "CHUNK"
MSG_END_UPDATE == "END"
MessageType == {MSG_SINGLE_UPDATE, MSG_START_UPDATE, MSG_UPDATE_CHUNK, MSG_END_UPDATE}

\* ------------------------------------------------------------ bounds

NumProducers == 2      \* producer threads on peer A
MaxMarks == 3          \* markRegionChanged calls begun in one behaviour
MaxRand == 1           \* rand() draws 0..MaxRand
MaxFrames == 3         \* frames handed to the receiver by the environment
MaxUpdateId == 2       \* update ids of environment frames: 1..MaxUpdateId
MaxTime == 5002        \* GetTickCount64 stops advancing here
MaxExtraWords == 1     \* a region is registered with 4..4+MaxExtraWords words
MaxMarkOffset == 1     \* a caller of markRegionChanged passes offsets 0..MaxMarkOffset
NumSyncThreads == 2    \* synchronizer threads that call generateUniqueId
MaxIds == 3            \* generateUniqueId calls in one behaviour
MaxPeers == 2          \* entries of g_remoteNodes
MaxSendFailures == 1   \* sendto calls that fail in one fan-out
MaxWord == 1           \* a caller writes the values 0..MaxWord into a buffer
NumAddresses == 2      \* addresses at which a view can be mapped

Producers == 1..NumProducers
SyncThreads == 1..NumSyncThreads
RegionName == "R"
RegionSizes == SizeofMemoryLayout..(SizeofMemoryLayout + MaxExtraWords)
TickSteps == {UPDATE_TIMEOUT_MS \div 2, UPDATE_TIMEOUT_MS \div 2 + 1}
\* byte ranges a producer writes and marks: data, last_modified, both
ProducerRanges == {<<OffData, 1>>, <<OffLastModified, 1>>, <<OffData, 2>>}

\* markRegionChanged(name, size_t offset, size_t size): the arguments a caller
\* is free to pass, inside the region and the message capacity and beyond them
MarkArguments ==
    {<<o, n>> : o \in 0..MaxMarkOffset,
                n \in {1, SizeofMemoryLayout, MAX_SYNC_DATA_SIZE, MAX_SYNC_DATA_SIZE + 1}}
\* byte ranges of environment frames
FrameRanges == {<<OffData, 2>>, <<OffLastModified, 1>>}
MarkApis == {"markRegionChanged", "markFieldChanged"}
\* the words of MemoryLayout that carry the application's data
PayloadWords == {OffData, OffLastModified}
\* the name connectToRemoteNode gives its probe frame: no region has it
ForeignName == "TEST"
NoCall == <<0, 0, "", "">>
\* addresses and ports given to connectToRemoteNode, as character strings
Hosts == {<<"1", ".", "2">>, <<"1", ".", "3">>}
Ports == {9, 10}
\* the remote node main.cpp connects to: peer B
PeerBHost == <<"1", ".", "1">>
PeerBPort == 9
\* the name test_partial_updates.cpp marks: never initialised, nothing to attach
UnknownName == "TestMemory"
\* the names the shared_memory.cpp functions are called with
RegistryNames == {RegionName, UnknownName}
\* no name: nobody waits inside cleanupSharedMemory
NoName == ""
\* a null pointer passed as the name
NullName == "NULL"
\* the addresses MapViewOfFile can return; NULL is 0
Addresses == 1..NumAddresses

\* the five mutexes: shared_memory.cpp:91, change_tracking.cpp:16-17,
\* network_sync.cpp:46 and 61
shared_memories_mutex == "shared_memories_mutex"
g_changesMutex == "g_changesMutex"
g_updatesMutex == "g_updatesMutex"
g_remoteNodesMutex == "g_remoteNodesMutex"
g_syncThreadsMutex == "g_syncThreadsMutex"
Mutexes == {shared_memories_mutex, g_changesMutex, g_updatesMutex, g_remoteNodesMutex,
            g_syncThreadsMutex}

\* the threads of one process: a producer, the region's synchronizer, the
\* receive thread, the region's monitoring thread, an application thread that
\* calls the public operations, and the caller of shutdownNetworkSync
ProducerThread == "producer"
SyncThread == "memorySyncThreadFunc"
ReceiveThread == "receiveThreadFunc"
MonitorThread == "monitorThreadFunc"
CallerThread == "caller"
ShutdownThread == "shutdown"
Threads == {ProducerThread, SyncThread, ReceiveThread, MonitorThread, CallerThread,
            ShutdownThread}

VARIABLES
    regionSize,            \* size passed to initializeSharedMemory on both peers
    memA,                  \* peer A: the region's words
    g_pendingChanges,      \* peer A: name -> sequence of MemoryChange
    ppc, pargs, ptmp,      \* producers: position, (offset,size,api,name) of the call, version read
    marksBegun, marksReturned,
    calls,                 \* (offset,size) appended since the last emission, in order
    spc, lastVersion,      \* synchronizer: position, its local lastVersion
    lastId,                \* generateUniqueId's static lastId
    net,                   \* frames sent to peer B and not yet received
    memB,                  \* peer B: the region's words
    g_inProgressUpdates,   \* peer B: updateId -> UpdateInfo
    g_networkCallback,     \* peer B: is a callback registered
    rpc,                   \* receive thread: position
    callbacks,             \* callback invocations <<name, offset, size>>
    applied,               \* frames copied into a region, in order
    received,              \* frames the receive thread has taken, in order
    cerr,                  \* what the receive thread's latest step reported
    reordered,             \* has a datagram overtaken an earlier one
    now,                   \* GetTickCount64
    gpc, gnew,             \* callers of generateUniqueId: position, their local newId
    ids,                   \* the values generateUniqueId returned, in order of return
    g_remoteNodes,         \* "ip:port" -> "ip:port"
    sent,                  \* the sendto calls of the latest synchronizer or connect step
    sendtoFails,           \* can sendto return SOCKET_ERROR in this environment
    g_running,             \* the flag the threads' loops test
    shpc,                  \* the caller of shutdownNetworkSync: position
    shared_memories,       \* name -> SharedMemoryInfo
    mappings,              \* the file mapping objects that exist: name -> size, contents
    providerCalls,         \* the mapping calls of the latest shared_memory.cpp operation
    ret,                   \* that operation, its arguments and its return value
    views,                 \* the views mapped into this process: address -> mapping name
    got,                   \* name -> the pointers getSharedMemory returned since it was registered
    monitorRunning,        \* the names whose monitorThreadFunc has not returned
    cpc,                   \* the caller of cleanupSharedMemory: the name whose monitor it waits for
    mpc, mlast,            \* monitor thread of the region: position, its local lastVersion
    notified,              \* the version in the region when the callback was last invoked
    g_syncThreads,         \* the names a synchronizer thread handle is stored for
    workers,               \* name -> the synchronizer threads of the name that are alive
    spcB, lastVersionB,    \* peer B's synchronizer of the region: position, its local lastVersion
    lastIdB,               \* peer B: generateUniqueId's static lastId
    echoed,                \* the frames peer B's synchronizer has sent, in order
    sharedMem,             \* peer A's synchronizer: the pointer getSharedMemory gave it, 0 before
    tpc,                   \* thread -> the lock and container steps it has still to take
    held,                  \* thread -> the mutexes it owns, in the order it acquired them
    handles,               \* the mutexes whose handle is not NULL
    monitoring             \* info->monitoring of the region

senderVars == <<memA, g_pendingChanges, ppc, pargs, ptmp, marksBegun, marksReturned,
                calls, spc, lastVersion, lastId>>
receiverVars == <<memB, g_inProgressUpdates, g_networkCallback, rpc, callbacks,
                  applied, received, cerr, reordered>>
idVars == <<gpc, gnew, ids>>
rosterVars == <<g_remoteNodes, sent, sendtoFails>>
lifeVars == <<g_running, shpc>>
registryVars == <<shared_memories, mappings, providerCalls, ret, views, got,
                  monitorRunning, cpc>>
monitorVars == <<mpc, mlast, notified>>
syncVars == <<g_syncThreads, workers>>
peerSyncVars == <<spcB, lastVersionB, lastIdB, echoed>>
lockVars == <<tpc, held, handles, monitoring>>
vars == <<regionSize, senderVars, net, receiverVars, now, idVars, rosterVars, lifeVars,
          registryVars, monitorVars, syncVars, peerSyncVars, sharedMem, lockVars>>

\* ------------------------------------------------------------ memory

\* a region as initializePrimaryMemory leaves it: version 1, the rest zero
InitialRegion(size) == [k \in 0..(size - 1) |-> IF k = OffVersion THEN InitialVersion ELSE 0]

\* Faulty variant, for sensitivity: no name is found
FindNothing(map, name) == FALSE

\* shared_memories.find(name) != shared_memories.end()
Find(map, name) == name \in DOMAIN map

\* Faulty variant, for sensitivity: every name yields a buffer
GetSharedMemoryAny(name) == TRUE

\* getSharedMemory(name) != NULL: the name is in shared_memories; where this
\* is used no mapping of another name exists to be opened
GetSharedMemory(name) == Find(shared_memories, name)

\* SharedMemoryInfo as initializeSharedMemory and getSharedMemory fill it:
\* the handle of the mapping called name, the address data of its view
SharedMemoryInfo(name, data, size) ==
    [handle |-> name, data |-> data, size |-> size,
     monitor_thread |-> FALSE, monitoring |-> FALSE, callback |-> FALSE]

\* a file mapping object: its size and words, whether another process holds
\* a handle to it, whether this process has leaked a handle to it
Mapping(size, contents, shared) ==
    [size |-> size, contents |-> contents, shared |-> shared, leaked |-> FALSE]

\* the entry with callback and monitoring thread as registerMemoryChangeCallback
\* leaves them
Monitored(info) ==
    [info EXCEPT !.callback = TRUE, !.monitoring = TRUE, !.monitor_thread = TRUE]

\* memset(pBuf, 0, size)
ZeroWords(size) == [k \in 0..(size - 1) |-> 0]

\* memcpy(region + off, data, size)
Memcpy(mem, off, data, size) ==
    [k \in DOMAIN mem |-> IF k >= off /\ k < off + size THEN data[k - off + 1] ELSE mem[k]]

\* memcpy(message.data, region + off, size): the words read
ReadWords(mem, off, size) == [j \in 1..size |-> mem[off + j - 1]]

\* ------------------------------------------------------------ change tracker

\* g_pendingChanges.find(name), or an empty vector
PendingOf(name) ==
    IF name \in DOMAIN g_pendingChanges THEN g_pendingChanges[name] ELSE <<>>

\* Faulty variant, for sensitivity: the change is inserted at the front
PushFrontChange(map, name, change) ==
    [n \in DOMAIN map \cup {name} |->
        IF n = name THEN <<change>> \o (IF name \in DOMAIN map THEN map[name] ELSE <<>>)
        ELSE map[n]]

\* g_pendingChanges[name].push_back(change)
PushBackChange(map, name, change) ==
    [n \in DOMAIN map \cup {name} |->
        IF n = name THEN Append(IF name \in DOMAIN map THEN map[name] ELSE <<>>, change)
        ELSE map[n]]

MemoryChange(off, size) == [offset |-> off, size |-> size, inProgress |-> FALSE]

\* uint64_t newId = tick << 32 | rand; if (newId == lastId) newId++
GenerateUniqueId(tick, r, last) ==
    LET newId == tick * TickShift + r
    IN  IF newId = last THEN newId + 1 ELSE newId

\* Faulty variant, for sensitivity: >= in place of >
TimedOutAtLimit(currentTime, info) == currentTime - info.startTime >= UPDATE_TIMEOUT_MS

\* currentTime - startTime > UPDATE_TIMEOUT_MS
TimedOut(currentTime, info) == currentTime - info.startTime > UPDATE_TIMEOUT_MS

\* checkUpdateTimeouts: the ids erased at currentTime
TimeoutIds(updates, currentTime) ==
    {id \in DOMAIN updates : TimedOut(currentTime, updates[id])}

EraseIds(updates, timeoutIds) == [id \in DOMAIN updates \ timeoutIds |-> updates[id]]

\* Faulty variant, for sensitivity: the copy is made, the callback is not invoked
ApplyUpdateNoCallback(st, m) ==
    IF GetSharedMemory(m.memoryName)
    THEN [mem |-> Memcpy(st.mem, m.offset, m.data, m.size),
          cbs |-> st.cbs,
          app |-> Append(st.app, m)]
    ELSE st

\* applyUpdate on the receiver's region, callback log and copy log
ApplyUpdate(st, m) ==
    IF GetSharedMemory(m.memoryName)
    THEN [mem |-> Memcpy(st.mem, m.offset, m.data, m.size),
          cbs |-> IF g_networkCallback
                  THEN Append(st.cbs, <<m.memoryName, m.offset, m.size>>)
                  ELSE st.cbs,
          app |-> Append(st.app, m)]
    ELSE st

RECURSIVE ApplyEach(_, _)
\* for (i = 0; i < chunks.size(); i++) applyUpdate(chunks[i])
ApplyEach(st, chunks) ==
    IF chunks = <<>> THEN st
    ELSE ApplyEach(ApplyUpdate(st, Head(chunks)), Tail(chunks))

\* Faulty variant, for sensitivity: the chunks stay in arrival order
UnsortedChunks(chunks) == {chunks}

\* std::sort(chunks, a.offset < b.offset): every outcome an unstable sort may give
SortChunks(chunks) ==
    LET n == Len(chunks)
        arrangements == {[i \in 1..n |-> chunks[p[i]]] : p \in Permutations(1..n)}
    IN  {s \in arrangements : \A i \in 1..n : \A j \in 1..n :
                                  i < j => ~(s[j].offset < s[i].offset)}

\* ------------------------------------------------------------ remote nodes

Digits == <<"0", "1", "2", "3", "4", "5", "6", "7", "8", "9">>

RECURSIVE to_string(_)
\* sprintf(buffer, "%d", value), value >= 0
to_string(value) ==
    IF value < 10 THEN <<Digits[value + 1]>>
    ELSE to_string(value \div 10) \o <<Digits[(value % 10) + 1]>>

IsDigit(c) == \E d \in 1..10 : Digits[d] = c

RECURSIVE AtoiFrom(_, _)
\* atoi: the leading decimal digits of str, after the value acc read so far
AtoiFrom(str, acc) ==
    IF str = <<>> \/ ~IsDigit(Head(str)) THEN acc
    ELSE AtoiFrom(Tail(str), acc * 10 + ((CHOOSE d \in 1..10 : Digits[d] = Head(str)) - 1))

atoi(str) == AtoiFrom(str, 0)

\* std::string(ip_address) + ":" + to_string(port)
NodeValue(ip, port) == ip \o <<":">> \o to_string(port)

\* value.find(':'): the first position of a colon, 0 for npos
FindColon(value) ==
    IF \E i \in 1..Len(value) : value[i] = ":"
    THEN CHOOSE i \in 1..Len(value) :
             value[i] = ":" /\ \A j \in 1..(i - 1) : value[j] # ":"
    ELSE 0

\* value.substr(0, colonPos)
NodeIp(value) == SubSeq(value, 1, FindColon(value) - 1)

\* atoi(value.substr(colonPos + 1))
NodePort(value) == atoi(SubSeq(value, FindColon(value) + 1, Len(value)))

\* Faulty variant, for sensitivity: the node is not stored
InsertNodeNever(nodes, key, value) == nodes

\* g_remoteNodes[nodeKey] = nodeValue
InsertNode(nodes, key, value) ==
    [k \in DOMAIN nodes \cup {key} |-> IF k = key THEN value ELSE nodes[k]]

\* the outcomes sendto may have for n frames sent to each node: the
\* (frame, node) pairs for which it returns SOCKET_ERROR
SendFailures(n, nodes) ==
    IF sendtoFails
    THEN {f \in SUBSET ((1..n) \X DOMAIN nodes) : Cardinality(f) <= MaxSendFailures}
    ELSE {{}}

\* one sendSyncMessage call: the i-th frame of the step, its destination and result
SendCall(i, ip, port, message, ok) ==
    [frame |-> i, ip |-> ip, port |-> port, message |-> message, ok |-> ok]

\* Faulty variant, for sensitivity: the first failed send ends the fan-out
FanOutUntilFailure(messages, nodes, failed) ==
    {SendCall(i, NodeIp(nodes[k]), NodePort(nodes[k]), messages[i], <<i, k>> \notin failed) :
        <<i, k>> \in {q \in (1..Len(messages)) \X DOMAIN nodes :
                          \A f \in failed : q[1] <= f[1]}}

\* for each message, the loop over g_remoteNodes: sendSyncMessage to each
\* node whose value holds a colon, whatever the earlier sends returned
FanOut(messages, nodes, failed) ==
    {SendCall(i, NodeIp(nodes[k]), NodePort(nodes[k]), messages[i], <<i, k>> \notin failed) :
        <<i, k>> \in {q \in (1..Len(messages)) \X DOMAIN nodes :
                          FindColon(nodes[q[2]]) # 0}}

RECURSIVE DeliveredFrom(_, _, _, _)
\* the messages, from the i-th on, whose datagram to peer B was sent
DeliveredFrom(messages, i, nodes, failed) ==
    IF i > Len(messages) THEN <<>>
    ELSE LET key == NodeValue(PeerBHost, PeerBPort)
             rest == DeliveredFrom(messages, i + 1, nodes, failed)
         IN  IF key \in DOMAIN nodes /\ <<i, key>> \notin failed
             THEN <<messages[i]>> \o rest
             ELSE rest

\* ------------------------------------------------------------ synchronizer

\* Faulty variant, for sensitivity: the last position is tested as i == changes.size()
MsgTypeAtOffByOne(i, n) ==
    IF n > 1
    THEN IF i = 0 THEN MSG_START_UPDATE
         ELSE IF i = n THEN MSG_END_UPDATE
         ELSE MSG_UPDATE_CHUNK
    ELSE MSG_SINGLE_UPDATE

\* the message type by position in the batch
MsgTypeAt(i, n) ==
    IF n > 1
    THEN IF i = 0 THEN MSG_START_UPDATE
         ELSE IF i = n - 1 THEN MSG_END_UPDATE
         ELSE MSG_UPDATE_CHUNK
    ELSE MSG_SINGLE_UPDATE

SyncMessage(name, type, id, off, size, data) ==
    [memoryName |-> name, msgType |-> type, updateId |-> id,
     offset |-> off, size |-> size, data |-> data]

\* a field no statement assigned: its value is settled when it is read
Uninitialized == "uninitialized"

\* testMsg of connectToRemoteNode: name, offset and size are set, msgType,
\* updateId and data are not
ProbeMessage ==
    SyncMessage(ForeignName, Uninitialized, Uninitialized, 0, 0, Uninitialized)

\* the for loop over changes: one message per change
ChangeMessages(name, changes, id, mem) ==
    [i \in 1..Len(changes) |->
        SyncMessage(name, MsgTypeAt(i - 1, Len(changes)), id,
                    changes[i].offset, changes[i].size,
                    ReadWords(mem, changes[i].offset, changes[i].size))]

\* the fallback: the whole MemoryLayout structure
FallbackMessage(name, id, mem) ==
    SyncMessage(name, MSG_SINGLE_UPDATE, id, 0, SizeofMemoryLayout,
                ReadWords(mem, 0, SizeofMemoryLayout))

\* Faulty variant, for sensitivity: the changes stay in the vector
ClearNothing(changes) == changes

\* changes.clear()
ClearChanges(changes) == <<>>

\* layout->version > lastVersion && layout->dirty
SyncWakes(mem, last) == mem[OffVersion] > last /\ mem[OffDirty] # 0

\* ------------------------------------------------------------ initial states

\* started: the producer threads the host application runs; the synchronizer
\* of the region was started by initializePrimaryMemory
\* all the mutexes, containers and threads are there: initNetworkSync, the
\* registry and the region's threads have been set up
InitLocks ==
    /\ tpc = [t \in Threads |-> <<>>]
    /\ held = [t \in Threads |-> <<>>]
    /\ handles = Mutexes
    /\ monitoring = TRUE

\* pos: where the region's synchronizer thread is
InitSenderAt(started, pos) ==
    /\ memA = InitialRegion(regionSize)
    /\ g_pendingChanges = [n \in {} |-> <<>>]
    /\ ppc = [p \in Producers |-> IF p \in started THEN "idle" ELSE "off"]
    /\ pargs = [p \in Producers |-> NoCall]
    /\ ptmp = [p \in Producers |-> 0]
    /\ marksBegun = 0
    /\ marksReturned = 0
    /\ calls = <<>>
    /\ spc = pos
    /\ sharedMem = IF pos = "start" THEN 0 ELSE 1
    /\ lastVersion = InitialVersion
    /\ lastId = 0
    /\ net = <<>>
    /\ g_syncThreads = {RegionName}
    /\ workers = [n \in RegistryNames |-> IF n = RegionName THEN 1 ELSE 0]

InitSender(started) == InitSenderAt(started, "poll")

\* started: the threads that call generateUniqueId on their own
InitIdCallers(started) ==
    /\ gpc = [t \in SyncThreads |-> IF t \in started THEN "idle" ELSE "off"]
    /\ gnew = [t \in SyncThreads |-> 0]
    /\ ids = <<>>

\* connected: the nodes connectToRemoteNode was called with before
InitRoster(connected, fails) ==
    /\ g_remoteNodes = [k \in connected |-> k]
    /\ sent = {}
    /\ sendtoFails = fails

\* registered: the names initializeSharedMemory was called with before, in
\* order, each with the region as initializePrimaryMemory leaves it;
\* monitored: those registerMemoryChangeCallback was called with as well
InitRegistry(registered, monitored) ==
    LET names == {registered[a] : a \in DOMAIN registered}
        info(n) == SharedMemoryInfo(n, CHOOSE a \in DOMAIN registered : registered[a] = n,
                                    regionSize)
    IN  /\ shared_memories =
               [n \in names |-> IF n \in monitored THEN Monitored(info(n)) ELSE info(n)]
        /\ mappings = [n \in names |-> Mapping(regionSize, InitialRegion(regionSize), FALSE)]
        /\ views = [a \in DOMAIN registered |-> registered[a]]
        /\ got = [n \in RegistryNames |-> {}]
        /\ monitorRunning = monitored
        /\ cpc = NoName
        /\ providerCalls = <<>>
        /\ ret = <<>>
        /\ mpc = "poll"
        /\ mlast = InitialVersion
        /\ notified = InitialVersion

\* running: has initNetworkSync been called
InitReceiverAt(running) ==
    /\ g_running = running
    /\ shpc = "idle"
    /\ memB = InitialRegion(regionSize)
    /\ spcB = "poll"
    /\ lastVersionB = InitialVersion
    /\ lastIdB = 0
    /\ echoed = <<>>
    /\ g_inProgressUpdates = [id \in {} |-> <<>>]
    /\ rpc = IF running THEN "recv" ELSE "off"
    /\ callbacks = <<>>
    /\ applied = <<>>
    /\ received = <<>>
    /\ cerr = {}
    /\ reordered = FALSE
    /\ now = 0

InitReceiver == InitReceiverAt(TRUE)

\* ------------------------------------------------------------ producers (peer A)

\* updatePrimaryMemory: the producer writes the payload, then calls
\* markRegionChanged or markFieldChanged (api) with the range r
ProducerWrite(p, r, api) ==
    /\ ppc[p] = "idle"
    /\ marksBegun < MaxMarks
    /\ r[1] + r[2] <= regionSize
    /\ memA' = Memcpy(memA, r[1], [j \in 1..r[2] |-> marksBegun + 1], r[2])
    /\ pargs' = [pargs EXCEPT ![p] = <<r[1], r[2], api, RegionName>>]
    /\ ppc' = [ppc EXCEPT ![p] = "call"]
    /\ marksBegun' = marksBegun + 1
    /\ UNCHANGED <<regionSize, sharedMem, lockVars, peerSyncVars, syncVars, monitorVars, registryVars, lifeVars, idVars, rosterVars, g_pendingChanges, ptmp, marksReturned, calls, spc,
                   lastVersion, lastId, net, receiverVars, now>>

\* a caller marks a range of a name that was never initialised, as
\* test_partial_updates.cpp does
ProducerMarkUnknown(p, r, api) ==
    /\ ppc[p] = "idle"
    /\ marksBegun < MaxMarks
    /\ pargs' = [pargs EXCEPT ![p] = <<r[1], r[2], api, UnknownName>>]
    /\ ppc' = [ppc EXCEPT ![p] = "call"]
    /\ marksBegun' = marksBegun + 1
    /\ UNCHANGED <<regionSize, sharedMem, lockVars, peerSyncVars, syncVars, monitorVars, registryVars, lifeVars, idVars, rosterVars, memA, g_pendingChanges, ptmp, marksReturned, calls, spc,
                   lastVersion, lastId, net, receiverVars, now>>

\* a caller passes an offset and a size of its choice for the registered region
ProducerMarkAny(p, r) ==
    /\ ppc[p] = "idle"
    /\ marksBegun < MaxMarks
    /\ pargs' = [pargs EXCEPT ![p] = <<r[1], r[2], "markRegionChanged", RegionName>>]
    /\ ppc' = [ppc EXCEPT ![p] = "call"]
    /\ marksBegun' = marksBegun + 1
    /\ UNCHANGED <<regionSize, sharedMem, lockVars, peerSyncVars, syncVars, monitorVars, registryVars, lifeVars, idVars, rosterVars, memA, g_pendingChanges, ptmp, marksReturned, calls, spc,
                   lastVersion, lastId, net, receiverVars, now>>

\* markRegionChanged(name, offset, size) up to unlockChangesMutex, or to the
\* early return when getSharedMemory gives NULL
MarkRegionChangedCall(p, name, offset, size) ==
    /\ ppc[p] = "call"
    /\ IF GetSharedMemory(name)
       THEN /\ g_pendingChanges' = PushBackChange(g_pendingChanges, name,
                                                  MemoryChange(offset, size))
            /\ calls' = Append(calls, pargs[p])
            /\ ppc' = [ppc EXCEPT ![p] = "ver_read"]
       ELSE /\ ppc' = [ppc EXCEPT ![p] = "idle"]
            /\ UNCHANGED <<g_pendingChanges, calls>>
    /\ pargs' = [pargs EXCEPT ![p] = NoCall]
    /\ UNCHANGED <<regionSize, sharedMem, lockVars, peerSyncVars, syncVars, monitorVars, registryVars, lifeVars, idVars, rosterVars, memA, ptmp, marksBegun, marksReturned, spc,
                   lastVersion, lastId, net, receiverVars, now>>

MarkRegionChanged(p) ==
    /\ pargs[p][3] = "markRegionChanged"
    /\ MarkRegionChangedCall(p, pargs[p][4], pargs[p][1], pargs[p][2])

\* markFieldChanged(name, fieldOffset, fieldSize): calls markRegionChanged with them
MarkFieldChanged(p) ==
    /\ pargs[p][3] = "markFieldChanged"
    /\ MarkRegionChangedCall(p, pargs[p][4], pargs[p][1], pargs[p][2])

\* layout->version++ : the load
VersionLoad(p) ==
    /\ ppc[p] = "ver_read"
    /\ ptmp' = [ptmp EXCEPT ![p] = memA[OffVersion]]
    /\ ppc' = [ppc EXCEPT ![p] = "ver_write"]
    /\ UNCHANGED <<regionSize, sharedMem, lockVars, peerSyncVars, syncVars, monitorVars, registryVars, lifeVars, idVars, rosterVars, memA, g_pendingChanges, pargs, marksBegun, marksReturned,
                   calls, spc, lastVersion, lastId, net, receiverVars, now>>

\* layout->version++ : the store
VersionStore(p) ==
    /\ ppc[p] = "ver_write"
    /\ memA' = [memA EXCEPT ![OffVersion] = ptmp[p] + 1]
    /\ ptmp' = [ptmp EXCEPT ![p] = 0]
    /\ ppc' = [ppc EXCEPT ![p] = "set_dirty"]
    /\ UNCHANGED <<regionSize, sharedMem, lockVars, peerSyncVars, syncVars, monitorVars, registryVars, lifeVars, idVars, rosterVars, g_pendingChanges, pargs, marksBegun, marksReturned,
                   calls, spc, lastVersion, lastId, net, receiverVars, now>>

\* layout->dirty = true; markRegionChanged returns
SetDirty(p) ==
    /\ ppc[p] = "set_dirty"
    /\ memA' = [memA EXCEPT ![OffDirty] = 1]
    /\ ppc' = [ppc EXCEPT ![p] = "idle"]
    /\ marksReturned' = marksReturned + 1
    /\ UNCHANGED <<regionSize, sharedMem, lockVars, peerSyncVars, syncVars, monitorVars, registryVars, lifeVars, idVars, rosterVars, g_pendingChanges, pargs, ptmp, marksBegun,
                   calls, spc, lastVersion, lastId, net, receiverVars, now>>

\* ------------------------------------------------------------ synchronizer (peer A)

\* one pass of the loop body from the wake test to unlockChangesMutex:
\* pending changes go out as one batch
SyncEmitChanges ==
    /\ spc = "poll"
    /\ g_running
    /\ SyncWakes(memA, lastVersion)
    /\ PendingOf(RegionName) # <<>>
    /\ \E r \in 0..MaxRand :
        LET updateId == GenerateUniqueId(now, r, lastId)
            messages == ChangeMessages(RegionName, PendingOf(RegionName), updateId, memA)
        IN  /\ \E failed \in SendFailures(Len(messages), g_remoteNodes) :
                   /\ sent' = FanOut(messages, g_remoteNodes, failed)
                   /\ net' = net \o DeliveredFrom(messages, 1, g_remoteNodes, failed)
            /\ lastId' = updateId
    /\ g_pendingChanges' = [g_pendingChanges EXCEPT ![RegionName] = ClearChanges(@)]
    /\ calls' = <<>>
    /\ spc' = "set_last"
    /\ UNCHANGED <<regionSize, sharedMem, lockVars, peerSyncVars, syncVars, monitorVars, registryVars, lifeVars, idVars, g_remoteNodes, sendtoFails, memA, ppc, pargs, ptmp,
                   marksBegun, marksReturned, lastVersion, receiverVars, now>>

\* the same pass with nothing pending: the whole structure goes out
SyncEmitFallback ==
    /\ spc = "poll"
    /\ g_running
    /\ SyncWakes(memA, lastVersion)
    /\ PendingOf(RegionName) = <<>>
    /\ \E r \in 0..MaxRand :
        LET updateId == GenerateUniqueId(now, r, lastId)
            messages == <<FallbackMessage(RegionName, updateId, memA)>>
        IN  /\ \E failed \in SendFailures(1, g_remoteNodes) :
                   /\ sent' = FanOut(messages, g_remoteNodes, failed)
                   /\ net' = net \o DeliveredFrom(messages, 1, g_remoteNodes, failed)
            /\ lastId' = updateId
    /\ spc' = "fb_set_last"
    /\ UNCHANGED <<regionSize, sharedMem, lockVars, peerSyncVars, syncVars, monitorVars, registryVars, lifeVars, idVars, g_remoteNodes, sendtoFails, memA, g_pendingChanges,
                   ppc, pargs, ptmp, marksBegun, marksReturned, calls, lastVersion,
                   receiverVars, now>>

\* lastVersion = layout->version
SyncSetLast ==
    /\ spc \in {"set_last", "fb_set_last"}
    /\ lastVersion' = memA[OffVersion]
    /\ spc' = "clear_dirty"
    /\ sent' = {}
    /\ UNCHANGED <<regionSize, sharedMem, lockVars, peerSyncVars, syncVars, monitorVars, registryVars, lifeVars, idVars, g_remoteNodes, sendtoFails, memA, g_pendingChanges, ppc, pargs, ptmp, marksBegun,
                   marksReturned, calls, lastId, net, receiverVars, now>>

\* layout->dirty = false; Sleep(10)
SyncClearDirty ==
    /\ spc = "clear_dirty"
    /\ memA' = [memA EXCEPT ![OffDirty] = 0]
    /\ spc' = "poll"
    /\ sent' = {}
    /\ UNCHANGED <<regionSize, sharedMem, lockVars, peerSyncVars, syncVars, monitorVars, registryVars, lifeVars, idVars, g_remoteNodes, sendtoFails, g_pendingChanges, ppc, pargs, ptmp, marksBegun,
                   marksReturned, calls, lastVersion, lastId, net, receiverVars, now>>

\* no producer is inside a mark call
ProducersIdle == \A p \in Producers : ppc[p] \in {"idle", "off"}

ProducerStep ==
    \/ \E p \in Producers : \E r \in ProducerRanges : \E api \in MarkApis :
           ProducerWrite(p, r, api)
    \/ \E p \in Producers : MarkRegionChanged(p)
    \/ \E p \in Producers : MarkFieldChanged(p)
    \/ \E p \in Producers : VersionLoad(p)
    \/ \E p \in Producers : VersionStore(p)
    \/ \E p \in Producers : SetDirty(p)

SyncStep ==
    \/ SyncEmitChanges
    \/ SyncEmitFallback
    \/ SyncSetLast
    \/ SyncClearDirty

\* peer A alone: producers and the synchronizer, frames pile up in net
InitSend ==
    /\ regionSize \in RegionSizes
    /\ g_networkCallback = TRUE
    /\ InitSender(Producers)
    /\ InitReceiver
    /\ InitLocks
    /\ InitRegistry(<<RegionName>>, {})
    /\ InitIdCallers({})
    /\ InitRoster({NodeValue(PeerBHost, PeerBPort)}, FALSE)

NextSend ==
    \/ ProducerStep
    \/ \E p \in Producers : \E r \in ProducerRanges : \E api \in MarkApis :
           ProducerMarkUnknown(p, r, api)
    \/ SyncStep

SpecSend == InitSend /\ [][NextSend]_vars

\* the callers of markRegionChanged alone, with arguments of their choice
NextMarkAny ==
    \/ ProducerStep
    \/ \E p \in Producers : \E r \in MarkArguments : ProducerMarkAny(p, r)

SpecMarkAny == InitSend /\ [][NextMarkAny]_vars

\* peer A when no producer runs while the synchronizer is in a cycle:
\* producers take steps only while the synchronizer sleeps, and the
\* synchronizer wakes only when no mark call is under way.  Nothing is then
\* ever found dirty with an empty vector, so the fallback is not taken.
NextSerial ==
    \/ spc = "poll" /\ ProducerStep
    \/ ProducersIdle /\ SyncEmitChanges
    \/ ProducersIdle /\ SyncSetLast
    \/ ProducersIdle /\ SyncClearDirty

SpecSerial == InitSend /\ [][NextSerial]_vars

\* ------------------------------------------------------------ start and stop

\* Faulty variant, for sensitivity: the name is never found in g_syncThreads
SyncStartedNever(name) == FALSE

\* g_syncThreads.find(memName) != g_syncThreads.end()
SyncStarted(name) == name \in g_syncThreads

\* startSharedMemorySync(memory_name)
StartSharedMemorySync(name) ==
    /\ IF SyncStarted(name)
       THEN \* already syncing this memory
            /\ ret' = <<"startSharedMemorySync", name, TRUE>>
            /\ UNCHANGED <<g_syncThreads, workers, spc>>
       ELSE \/ \* _beginthreadex fails
               /\ ret' = <<"startSharedMemorySync", name, FALSE>>
               /\ UNCHANGED <<g_syncThreads, workers, spc>>
            \/ \* the thread is created and its handle stored
               /\ g_syncThreads' = g_syncThreads \cup {name}
               /\ workers' = [workers EXCEPT ![name] = @ + 1]
               /\ spc' = IF name = RegionName THEN "start" ELSE spc
               /\ ret' = <<"startSharedMemorySync", name, TRUE>>
    /\ providerCalls' = <<>>
    /\ UNCHANGED <<regionSize, sharedMem, lockVars, peerSyncVars, monitorVars, lifeVars, idVars, rosterVars, memA,
                   g_pendingChanges, ppc, pargs, ptmp, marksBegun, marksReturned, calls,
                   lastVersion, lastId, net, receiverVars, now, shared_memories, mappings,
                   views, got, monitorRunning, cpc>>

\* memorySyncThreadFunc of the region before its loop: getSharedMemory gives
\* the buffer; lastVersion = layout->version
SyncBegin ==
    /\ spc = "start"
    /\ GetSharedMemory(RegionName)
    /\ sharedMem' = shared_memories[RegionName].data
    /\ lastVersion' = memA[OffVersion]
    /\ spc' = "poll"
    /\ UNCHANGED <<regionSize, lockVars, peerSyncVars, syncVars, monitorVars, registryVars, lifeVars, idVars,
                   rosterVars, memA, g_pendingChanges, ppc, pargs, ptmp, marksBegun,
                   marksReturned, calls, lastId, net, receiverVars, now>>

\* memorySyncThreadFunc of a name getSharedMemory gives no buffer for: the
\* thread returns, its handle stays in g_syncThreads
SyncNoMemory(name) ==
    /\ name # RegionName
    /\ workers[name] > 0
    /\ ~GetSharedMemory(name)
    /\ workers' = [workers EXCEPT ![name] = @ - 1]
    /\ UNCHANGED <<regionSize, sharedMem, lockVars, peerSyncVars, g_syncThreads, monitorVars, registryVars, lifeVars, idVars,
                   rosterVars, senderVars, net, receiverVars, now>>

\* stopSharedMemorySync(memory_name): TerminateThread ends the thread
\* wherever it is, the handle is closed and erased
StopSharedMemorySync(name) ==
    /\ IF SyncStarted(name)
       THEN /\ g_syncThreads' = g_syncThreads \ {name}
            /\ workers' = [workers EXCEPT ![name] = IF @ > 0 THEN @ - 1 ELSE 0]
            /\ spc' = IF name = RegionName THEN "off" ELSE spc
       ELSE UNCHANGED <<g_syncThreads, workers, spc>>
    /\ ret' = <<"stopSharedMemorySync", name>>
    /\ providerCalls' = <<>>
    /\ sent' = {}
    /\ UNCHANGED <<regionSize, sharedMem, lockVars, peerSyncVars, monitorVars, lifeVars, idVars, g_remoteNodes, sendtoFails,
                   memA, g_pendingChanges, ppc, pargs, ptmp, marksBegun, marksReturned,
                   calls, lastVersion, lastId, net, receiverVars, now, shared_memories,
                   mappings, views, got, monitorRunning, cpc>>

\* peer A: one producer, and the application starts and stops synchronizers
InitSyncControl ==
    /\ regionSize = SizeofMemoryLayout
    /\ g_networkCallback = TRUE
    /\ InitSender({1})
    /\ InitReceiver
    /\ InitLocks
    /\ InitRegistry(<<RegionName>>, {})
    /\ InitIdCallers({})
    /\ InitRoster({NodeValue(PeerBHost, PeerBPort)}, FALSE)

NextSyncControl ==
    \/ ProducerStep
    \/ SyncStep
    \/ SyncBegin
    \/ \E name \in RegistryNames : SyncNoMemory(name)
    \/ \E name \in RegistryNames : StartSharedMemorySync(name)
    \/ \E name \in RegistryNames : StopSharedMemorySync(name)

SpecSyncControl == InitSyncControl /\ [][NextSyncControl]_vars

\* ------------------------------------------------------------ connectToRemoteNode

\* connectToRemoteNode(ip_address, port): the node is stored, the probe is
\* sent, the result of the send is returned
ConnectToRemoteNode(ip, port) ==
    /\ Cardinality(DOMAIN g_remoteNodes \cup {NodeValue(ip, port)}) <= MaxPeers
    /\ g_remoteNodes' = InsertNode(g_remoteNodes, NodeValue(ip, port), NodeValue(ip, port))
    /\ \E ok \in (IF sendtoFails THEN BOOLEAN ELSE {TRUE}) :
           sent' = {SendCall(1, ip, port, ProbeMessage, ok)}
    /\ UNCHANGED <<regionSize, sharedMem, lockVars, peerSyncVars, syncVars, monitorVars, registryVars, lifeVars, idVars, sendtoFails, senderVars, net, receiverVars, now>>

\* peer A with nodes other than peer B connecting; sendto may fail
InitNet ==
    /\ regionSize = SizeofMemoryLayout
    /\ g_networkCallback = TRUE
    /\ InitSender({1})
    /\ InitReceiver
    /\ InitLocks
    /\ InitRegistry(<<RegionName>>, {})
    /\ InitIdCallers({})
    /\ InitRoster({}, TRUE)

NextNet ==
    \/ \E ip \in Hosts : \E port \in Ports : ConnectToRemoteNode(ip, port)
    \/ ProducerStep
    \/ SyncStep

SpecNet == InitNet /\ [][NextNet]_vars

\* ------------------------------------------------------------ receive thread (peer B)

ReceiverState == [mem |-> memB, cbs |-> callbacks, app |-> applied]

SetReceiverState(st) ==
    /\ memB' = st.mem
    /\ callbacks' = st.cbs
    /\ applied' = st.app

\* case MSG_SINGLE_UPDATE
RecvSingle(m) ==
    /\ m.msgType = MSG_SINGLE_UPDATE
    /\ SetReceiverState(ApplyUpdate(ReceiverState, m))
    /\ cerr' = {}
    /\ UNCHANGED g_inProgressUpdates

\* case MSG_START_UPDATE: g_inProgressUpdates[id], created when absent
StartUpdate(updates, m, currentTime) ==
    LET id == m.updateId
        old == IF id \in DOMAIN updates THEN updates[id].chunks ELSE <<>>
    IN  [i \in DOMAIN updates \cup {id} |->
            IF i = id
            THEN [updateId |-> id, chunks |-> Append(old, m), startTime |-> currentTime]
            ELSE updates[i]]

RecvStart(m) ==
    /\ m.msgType = MSG_START_UPDATE
    /\ g_inProgressUpdates' = StartUpdate(g_inProgressUpdates, m, now)
    /\ cerr' = {}
    /\ UNCHANGED <<memB, callbacks, applied>>

\* case MSG_UPDATE_CHUNK, id found
RecvChunk(m) ==
    /\ m.msgType = MSG_UPDATE_CHUNK
    /\ m.updateId \in DOMAIN g_inProgressUpdates
    /\ g_inProgressUpdates' =
           [g_inProgressUpdates EXCEPT ![m.updateId].chunks = Append(@, m)]
    /\ cerr' = {}
    /\ UNCHANGED <<memB, callbacks, applied>>

\* Faulty variant, for sensitivity: a chunk with an unknown id is applied at once
RecvChunkUnknownApplied(m) ==
    /\ m.msgType = MSG_UPDATE_CHUNK
    /\ m.updateId \notin DOMAIN g_inProgressUpdates
    /\ SetReceiverState(ApplyUpdate(ReceiverState, m))
    /\ cerr' = {<<"Received chunk for unknown update ID", m.updateId>>}
    /\ UNCHANGED g_inProgressUpdates

\* case MSG_UPDATE_CHUNK, id not found: the chunk is discarded
RecvChunkUnknown(m) ==
    /\ m.msgType = MSG_UPDATE_CHUNK
    /\ m.updateId \notin DOMAIN g_inProgressUpdates
    /\ cerr' = {<<"Received chunk for unknown update ID", m.updateId>>}
    /\ UNCHANGED <<memB, callbacks, applied, g_inProgressUpdates>>

\* case MSG_END_UPDATE, id found: push_back, applyMultipartUpdate, erase
RecvEnd(m) ==
    /\ m.msgType = MSG_END_UPDATE
    /\ m.updateId \in DOMAIN g_inProgressUpdates
    /\ \E sorted \in SortChunks(Append(g_inProgressUpdates[m.updateId].chunks, m)) :
           SetReceiverState(ApplyEach(ReceiverState, sorted))
    /\ g_inProgressUpdates' = EraseIds(g_inProgressUpdates, {m.updateId})
    /\ cerr' = {}

\* case MSG_END_UPDATE, id not found: this chunk alone is applied
RecvEndUnknown(m) ==
    /\ m.msgType = MSG_END_UPDATE
    /\ m.updateId \notin DOMAIN g_inProgressUpdates
    /\ SetReceiverState(ApplyUpdate(ReceiverState, m))
    /\ cerr' = {<<"Received end for unknown update ID", m.updateId>>}
    /\ UNCHANGED g_inProgressUpdates

\* receiveSyncMessage returned true with message m: the switch
Classify(m) ==
    /\ rpc = "recv"
    /\ \/ RecvSingle(m)
       \/ RecvStart(m)
       \/ RecvChunk(m)
       \/ RecvChunkUnknown(m)
       \/ RecvEnd(m)
       \/ RecvEndUnknown(m)
    /\ received' = Append(received, m)
    /\ rpc' = "check"
    /\ UNCHANGED <<regionSize, sharedMem, lockVars, peerSyncVars, syncVars, monitorVars, registryVars, lifeVars, idVars, rosterVars, senderVars, g_networkCallback, now>>

\* checkUpdateTimeouts(), Sleep(10), then the test of while (g_running)
CheckUpdateTimeouts ==
    /\ rpc = "check"
    /\ g_inProgressUpdates' =
           EraseIds(g_inProgressUpdates, TimeoutIds(g_inProgressUpdates, now))
    /\ cerr' = {<<"timed out and was discarded", id>> :
                    id \in TimeoutIds(g_inProgressUpdates, now)}
    /\ rpc' = IF g_running THEN "recv" ELSE "exited"
    /\ UNCHANGED <<regionSize, sharedMem, lockVars, peerSyncVars, syncVars, monitorVars, registryVars, lifeVars, idVars, rosterVars, senderVars, net, memB, g_networkCallback, callbacks,
                   applied, received, reordered, now>>

\* GetTickCount64 advances
Tick(d) ==
    /\ now + d <= MaxTime
    /\ now' = now + d
    /\ UNCHANGED <<regionSize, sharedMem, lockVars, peerSyncVars, syncVars, monitorVars, registryVars, lifeVars, idVars, rosterVars, senderVars, net, receiverVars>>

\* a frame some peer sent: the k-th frame carries the words 10k+1, 10k+2, ...
EnvFrame(type, id, r, k) ==
    SyncMessage(RegionName, type, id, r[1], r[2], [j \in 1..r[2] |-> 10 * k + j])

\* recvfrom returns a frame of the environment
ReceiveEnv ==
    /\ Len(received) < MaxFrames
    /\ \E type \in MessageType : \E id \in 1..MaxUpdateId : \E r \in FrameRanges :
           Classify(EnvFrame(type, id, r, Len(received) + 1))
    /\ UNCHANGED <<net, reordered>>

\* a frame naming a region this peer does not have
ForeignFrame(type, id, r, k) ==
    [EnvFrame(type, id, r, k) EXCEPT !.memoryName = ForeignName]

\* recvfrom returns a frame that names no region of this peer
ReceiveForeign ==
    /\ Len(received) < MaxFrames
    /\ \E type \in MessageType : \E id \in 1..MaxUpdateId : \E r \in FrameRanges :
           Classify(ForeignFrame(type, id, r, Len(received) + 1))
    /\ UNCHANGED <<net, reordered>>

RemoveAt(s, i) == [j \in 1..(Len(s) - 1) |-> IF j < i THEN s[j] ELSE s[j + 1]]

\* recvfrom returns a frame peer A sent; datagrams arrive in any order
ReceiveNet ==
    \E i \in 1..Len(net) :
        /\ Classify(net[i])
        /\ net' = RemoveAt(net, i)
        /\ reordered' = (reordered \/ i > 1)

\* peer B alone: the receive thread fed by the environment
InitRecv ==
    /\ regionSize = SizeofMemoryLayout
    /\ g_networkCallback \in BOOLEAN
    /\ InitSender({})
    /\ InitReceiver
    /\ InitLocks
    /\ InitRegistry(<<RegionName>>, {})
    /\ InitIdCallers({})
    /\ InitRoster({NodeValue(PeerBHost, PeerBPort)}, FALSE)

NextRecv ==
    \/ ReceiveEnv
    \/ CheckUpdateTimeouts
    \/ \E d \in TickSteps : Tick(d)

SpecRecv == InitRecv /\ [][NextRecv]_vars

\* the receive thread takes its steps and the clock runs; whether another
\* frame arrives is up to the peers
FairSpecRecv == SpecRecv /\ WF_vars(CheckUpdateTimeouts) /\ WF_vars(\E d \in TickSteps : Tick(d))

\* peer B alone, fed frames for its region and frames for regions it lacks
NextRecvAny ==
    \/ ReceiveEnv
    \/ ReceiveForeign
    \/ CheckUpdateTimeouts
    \/ \E d \in TickSteps : Tick(d)

SpecRecvAny == InitRecv /\ [][NextRecvAny]_vars

\* testMsg as it arrives: msgType and updateId hold whatever was on the
\* sender's stack; size is 0, so nothing of data is read.  A msgType outside
\* the enumeration reaches no case of the switch and is left out.
ProbeFrame(type, id) ==
    [ProbeMessage EXCEPT !.msgType = type, !.updateId = id, !.data = <<>>]

\* recvfrom returns the probe of a peer's connectToRemoteNode
ReceiveProbe ==
    /\ Len(received) < MaxFrames
    /\ \E type \in MessageType : \E id \in 1..MaxUpdateId :
           Classify(ProbeFrame(type, id))
    /\ UNCHANGED <<net, reordered>>

\* peer B alone, fed frames for its region and probes
NextProbe ==
    \/ ReceiveEnv
    \/ ReceiveProbe
    \/ CheckUpdateTimeouts
    \/ \E d \in TickSteps : Tick(d)

SpecProbe == InitRecv /\ [][NextProbe]_vars

\* the versions a peer's region has after its producer marked changes
PeerVersions == (InitialVersion + 1)..(InitialVersion + MaxMarks)

\* the frame a peer's synchronizer sends when it finds nothing pending: its
\* whole MemoryLayout, with the version v it has there and dirty set
WholeFrame(id, v, k) ==
    FallbackMessage(RegionName, id,
                    [InitialRegion(regionSize) EXCEPT ![OffVersion] = v,
                                                      ![OffData] = 10 * k + 1,
                                                      ![OffDirty] = 1])

\* recvfrom returns such a frame
ReceiveWhole ==
    /\ Len(received) < MaxFrames
    /\ \E id \in 1..MaxUpdateId : \E v \in PeerVersions :
           Classify(WholeFrame(id, v, Len(received) + 1))
    /\ UNCHANGED <<net, reordered>>

\* peer B alone, fed whole-structure frames by its peers
NextRecvWhole ==
    \/ ReceiveWhole
    \/ CheckUpdateTimeouts

SpecRecvWhole == InitRecv /\ [][NextRecvWhole]_vars

\* the offset and size fields of a datagram, which recvfrom copies into the
\* message as they come: past the end of the region, larger than the data field
WireRanges ==
    {<<OffData, SizeofMemoryLayout>>, <<OffDirty, 2>>, <<OffVersion, MAX_SYNC_DATA_SIZE + 1>>}

\* such a datagram: the data field always has its MAX_SYNC_DATA_SIZE words
WireFrame(type, id, r, k) ==
    SyncMessage(RegionName, type, id, r[1], r[2],
                [j \in 1..MAX_SYNC_DATA_SIZE |-> 10 * k + j])

\* recvfrom returns such a datagram.  The words memcpy writes past the end of
\* the region belong to whatever follows the view and are not part of memB
ReceiveWire ==
    /\ Len(received) < MaxFrames
    /\ \E type \in MessageType : \E id \in 1..MaxUpdateId : \E r \in WireRanges :
           Classify(WireFrame(type, id, r, Len(received) + 1))
    /\ UNCHANGED <<net, reordered>>

\* peer B alone, fed datagrams whose offset and size fields are not checked
\* by their sender
NextRecvWire ==
    \/ ReceiveEnv
    \/ ReceiveWire
    \/ CheckUpdateTimeouts

SpecRecvWire == InitRecv /\ [][NextRecvWire]_vars

\* ------------------------------------------------------------ synchronizer (peer B)

\* memorySyncThreadFunc of the region on the receiving peer, started by
\* initializeSecondaryMemory.  No markRegionChanged is called on this peer, so
\* its vector of pending changes is empty and a pass that wakes takes the
\* fallback branch: the whole structure goes to the peer's remote node
PeerSyncEmitFallback ==
    /\ spcB = "poll"
    /\ g_running
    /\ SyncWakes(memB, lastVersionB)
    /\ \E r \in 0..MaxRand :
        LET updateId == GenerateUniqueId(now, r, lastIdB)
        IN  /\ echoed' = Append(echoed, FallbackMessage(RegionName, updateId, memB))
            /\ lastIdB' = updateId
    /\ spcB' = "set_last"
    /\ UNCHANGED <<regionSize, sharedMem, lockVars, lastVersionB, syncVars, monitorVars, registryVars, lifeVars, idVars,
                   rosterVars, senderVars, net, receiverVars, now>>

\* lastVersion = layout->version
PeerSyncSetLast ==
    /\ spcB = "set_last"
    /\ lastVersionB' = memB[OffVersion]
    /\ spcB' = "clear_dirty"
    /\ UNCHANGED <<regionSize, sharedMem, lockVars, lastIdB, echoed, syncVars, monitorVars, registryVars, lifeVars, idVars,
                   rosterVars, senderVars, net, receiverVars, now>>

\* layout->dirty = false; Sleep(10)
PeerSyncClearDirty ==
    /\ spcB = "clear_dirty"
    /\ memB' = [memB EXCEPT ![OffDirty] = 0]
    /\ spcB' = "poll"
    /\ UNCHANGED <<regionSize, sharedMem, lockVars, lastVersionB, lastIdB, echoed, syncVars, monitorVars, registryVars,
                   lifeVars, idVars, rosterVars, senderVars, net, g_inProgressUpdates,
                   g_networkCallback, rpc, callbacks, applied, received, cerr, reordered, now>>

\* peer B with its receive thread and its synchronizer of the region: frames
\* of changes and whole-structure frames arrive, nothing is marked locally
NextEcho ==
    \/ ReceiveEnv
    \/ ReceiveWhole
    \/ CheckUpdateTimeouts
    \/ PeerSyncEmitFallback
    \/ PeerSyncSetLast
    \/ PeerSyncClearDirty

SpecEcho == InitRecv /\ [][NextEcho]_vars

\* ------------------------------------------------------------ shutdownNetworkSync

\* recvfrom returns SOCKET_ERROR: nothing is processed; Sleep(10), then the
\* test of while (g_running)
ReceiveFails ==
    /\ rpc = "recv"
    /\ rpc' = IF g_running THEN "recv" ELSE "exited"
    /\ cerr' = {}
    /\ UNCHANGED <<regionSize, sharedMem, lockVars, peerSyncVars, syncVars, monitorVars, registryVars, lifeVars, idVars, rosterVars, senderVars, net, memB,
                   g_inProgressUpdates, g_networkCallback, callbacks, applied, received,
                   reordered, now>>

\* memorySyncThreadFunc: while (g_running) is false, the thread returns
SyncExit ==
    /\ spc = "poll"
    /\ ~g_running
    /\ spc' = "exited"
    /\ workers' = [workers EXCEPT ![RegionName] = @ - 1]
    /\ UNCHANGED <<regionSize, sharedMem, lockVars, peerSyncVars, g_syncThreads, monitorVars, registryVars, lifeVars, idVars, rosterVars, memA, g_pendingChanges, ppc,
                   pargs, ptmp, marksBegun, marksReturned, calls, lastVersion, lastId, net,
                   receiverVars, now>>

\* shutdownNetworkSync: g_running = false; cleanupChangeTracking()
ShutdownBegin ==
    /\ shpc = "idle"
    /\ g_running' = FALSE
    /\ g_pendingChanges' = [n \in {} |-> <<>>]
    /\ calls' = <<>>
    /\ g_inProgressUpdates' = [id \in {} |-> <<>>]
    /\ shpc' = "join_receive"
    /\ UNCHANGED <<regionSize, sharedMem, lockVars, peerSyncVars, syncVars, monitorVars, registryVars, idVars, rosterVars, memA, ppc, pargs, ptmp, marksBegun,
                   marksReturned, spc, lastVersion, lastId, net, memB, g_networkCallback,
                   rpc, callbacks, applied, received, cerr, reordered, now>>

\* WaitForSingleObject(g_receiveThread, INFINITE) returns
ShutdownJoinReceive ==
    /\ shpc = "join_receive"
    /\ rpc = "exited"
    /\ shpc' = "join_sync"
    /\ UNCHANGED <<regionSize, sharedMem, lockVars, peerSyncVars, syncVars, monitorVars, registryVars, g_running, idVars, rosterVars, senderVars, net,
                   receiverVars, now>>

\* the waits for the synchronizer threads return; g_syncThreads.clear(),
\* closesocket, cleanupWinsock, the two mutexes are closed; return
ShutdownJoinSync ==
    /\ shpc = "join_sync"
    /\ spc = "exited"
    /\ shpc' = "done"
    /\ g_syncThreads' = {}
    /\ UNCHANGED <<regionSize, sharedMem, lockVars, peerSyncVars, workers, monitorVars, registryVars, g_running, idVars, rosterVars, senderVars, net,
                   receiverVars, now>>

\* a peer that is shut down while frames may still arrive
InitShutdown ==
    /\ regionSize = SizeofMemoryLayout
    /\ g_networkCallback = TRUE
    /\ InitSender({})
    /\ InitReceiver
    /\ InitLocks
    /\ InitRegistry(<<RegionName>>, {})
    /\ InitIdCallers({})
    /\ InitRoster({NodeValue(PeerBHost, PeerBPort)}, FALSE)

NextShutdown ==
    \/ ReceiveEnv
    \/ ReceiveFails
    \/ CheckUpdateTimeouts
    \/ SyncExit
    \/ ShutdownBegin
    \/ ShutdownJoinReceive
    \/ ShutdownJoinSync

SpecShutdown == InitShutdown /\ [][NextShutdown]_vars

\* every thread takes its steps; whether a datagram arrives or recvfrom
\* fails is up to the network
FairSpecShutdown ==
    /\ SpecShutdown
    /\ WF_vars(CheckUpdateTimeouts)
    /\ WF_vars(SyncExit)
    /\ WF_vars(ShutdownJoinReceive)
    /\ WF_vars(ShutdownJoinSync)

\* ------------------------------------------------------------ shared_memory.cpp

\* the addresses at which no view is mapped
FreeAddresses == Addresses \ DOMAIN views

\* MapViewOfFile returned address a for the mapping called name
MapView(a, name) == [b \in DOMAIN views \cup {a} |-> IF b = a THEN name ELSE views[b]]

\* UnmapViewOfFile(a) succeeded
UnmapView(a) == [b \in DOMAIN views \ {a} |-> views[b]]

\* the words of an existing mapping after memset(pBuf, 0, size) through a view
ZeroFilled(mapping, size) ==
    [mapping EXCEPT !.contents = [k \in DOMAIN @ |-> IF k < size THEN 0 ELSE @[k]]]

\* the mapping objects after this process gave up a view (unmapped) and a
\* handle (closed) of the one called name: the object goes when nothing of it
\* is left open here or in another process
Released(name, unmapped, closed, remaining) ==
    LET m == [mappings[name] EXCEPT !.leaked = @ \/ ~closed]
        gone == /\ unmapped /\ closed /\ ~m.shared /\ ~m.leaked
                /\ \A b \in DOMAIN remaining : remaining[b] # name
    IN  [n \in (IF gone THEN DOMAIN mappings \ {name} ELSE DOMAIN mappings) |->
            IF n = name THEN m ELSE mappings[n]]

\* initializeSharedMemory(name, size)
InitializeSharedMemory(name, size) ==
    /\ cpc = NoName
    /\ IF Find(shared_memories, name)
       THEN \* already initialized, nothing to do
            /\ providerCalls' = <<>>
            /\ ret' = <<"initializeSharedMemory", name, size, TRUE>>
            /\ UNCHANGED <<shared_memories, mappings, views, got>>
       ELSE \/ \* CreateSharedMemory returns NULL
               /\ providerCalls' = <<<<"CreateFileMapping", name, size>>>>
               /\ ret' = <<"initializeSharedMemory", name, size, FALSE>>
               /\ UNCHANGED <<shared_memories, mappings, views, got>>
            \/ \* MapSharedMemory returns NULL: the handle is closed again
               /\ providerCalls' = <<<<"CreateFileMapping", name, size>>,
                                     <<"MapViewOfFile", name, size>>,
                                     <<"CloseHandle", name>>>>
               /\ ret' = <<"initializeSharedMemory", name, size, FALSE>>
               /\ UNCHANGED <<shared_memories, mappings, views, got>>
            \/ \* the mapping is created, or opened when one of that name
               \* exists and is large enough, mapped and zero-filled
               /\ Find(mappings, name) => size <= mappings[name].size
               /\ \E a \in FreeAddresses :
                      /\ views' = MapView(a, name)
                      /\ shared_memories' =
                             [n \in DOMAIN shared_memories \cup {name} |->
                                 IF n = name THEN SharedMemoryInfo(name, a, size)
                                 ELSE shared_memories[n]]
               /\ providerCalls' = <<<<"CreateFileMapping", name, size>>,
                                     <<"MapViewOfFile", name, size>>>>
               /\ mappings' =
                      [n \in DOMAIN mappings \cup {name} |->
                          IF n # name THEN mappings[n]
                          ELSE IF Find(mappings, name)
                               THEN ZeroFilled(mappings[name], size)
                               ELSE Mapping(size, ZeroWords(size), FALSE)]
               /\ got' = [got EXCEPT ![name] = {}]
               /\ ret' = <<"initializeSharedMemory", name, size, TRUE>>
    /\ UNCHANGED <<regionSize, sharedMem, lockVars, peerSyncVars, syncVars, senderVars, net, receiverVars, now, idVars, rosterVars,
                   lifeVars, monitorVars, monitorRunning, cpc>>

\* Faulty variant, for sensitivity: NULL is returned for a registered name
FoundDataNull(info) == 0

\* void* result = it->second.data
FoundData(info) == info.data

\* getSharedMemory(name)
GetSharedMemoryCall(name) ==
    /\ cpc = NoName
    /\ IF Find(shared_memories, name)
       THEN \* we already have it: the pointer to the mapped memory
            /\ ret' = <<"getSharedMemory", name, FoundData(shared_memories[name])>>
            /\ got' = [got EXCEPT ![name] = @ \cup {FoundData(shared_memories[name])}]
            /\ providerCalls' = <<>>
            /\ UNCHANGED <<shared_memories, mappings, views>>
       ELSE \/ \* OpenSharedMemory returns NULL
               /\ providerCalls' = <<<<"OpenFileMapping", name>>>>
               /\ ret' = <<"getSharedMemory", name, 0>>
               /\ UNCHANGED <<shared_memories, mappings, views, got>>
            \/ \* MapSharedMemory returns NULL: the handle is closed again
               /\ Find(mappings, name)
               /\ providerCalls' = <<<<"OpenFileMapping", name>>,
                                     <<"MapViewOfFile", name, SizeofMemoryLayout>>,
                                     <<"CloseHandle", name>>>>
               /\ ret' = <<"getSharedMemory", name, 0>>
               /\ UNCHANGED <<shared_memories, mappings, views, got>>
            \/ \* the mapping is opened, sizeof(MemoryLayout) bytes of it are
               \* mapped, and the name is registered with that size
               /\ Find(mappings, name)
               /\ SizeofMemoryLayout <= mappings[name].size
               /\ \E a \in FreeAddresses :
                      /\ views' = MapView(a, name)
                      /\ shared_memories' =
                             [n \in DOMAIN shared_memories \cup {name} |->
                                 IF n = name
                                 THEN SharedMemoryInfo(name, a, SizeofMemoryLayout)
                                 ELSE shared_memories[n]]
                      /\ ret' = <<"getSharedMemory", name, a>>
                      /\ got' = [got EXCEPT ![name] = {a}]
               /\ providerCalls' = <<<<"OpenFileMapping", name>>,
                                     <<"MapViewOfFile", name, SizeofMemoryLayout>>>>
               /\ UNCHANGED mappings
    /\ UNCHANGED <<regionSize, sharedMem, lockVars, peerSyncVars, syncVars, senderVars, net, receiverVars, now, idVars, rosterVars,
                   lifeVars, monitorVars, monitorRunning, cpc>>

\* the caller writes word k of the buffer getSharedMemory(name) gave it
WriteBuffer(name, k, v) ==
    /\ Find(shared_memories, name)
    /\ k < shared_memories[name].size
    /\ mappings' = [mappings EXCEPT ![views[shared_memories[name].data]].contents[k] = v]
    /\ providerCalls' = <<>>
    /\ ret' = <<>>
    /\ UNCHANGED <<regionSize, sharedMem, lockVars, peerSyncVars, syncVars, senderVars, net, receiverVars, now, idVars, rosterVars,
                   lifeVars, monitorVars, shared_memories, views, got, monitorRunning, cpc>>

\* registerMemoryChangeCallback(name, callback): the callback is stored and
\* the monitoring thread is started when none is running
RegisterMemoryChangeCallback(name) ==
    /\ cpc = NoName
    /\ IF ~Find(shared_memories, name)
       THEN /\ ret' = <<"registerMemoryChangeCallback", name, FALSE>>
            /\ UNCHANGED <<shared_memories, monitorRunning>>
       ELSE \/ /\ shared_memories' = [shared_memories EXCEPT ![name] = Monitored(@)]
               /\ monitorRunning' = monitorRunning \cup {name}
               /\ ret' = <<"registerMemoryChangeCallback", name, TRUE>>
            \/ \* _beginthreadex fails
               /\ ~shared_memories[name].monitoring
               /\ shared_memories' =
                      [shared_memories EXCEPT ![name].callback = TRUE]
               /\ ret' = <<"registerMemoryChangeCallback", name, FALSE>>
               /\ UNCHANGED monitorRunning
    /\ providerCalls' = <<>>
    /\ UNCHANGED <<regionSize, sharedMem, lockVars, peerSyncVars, syncVars, senderVars, net, receiverVars, now, idVars, rosterVars,
                   lifeVars, monitorVars, mappings, views, got, cpc>>

\* monitorThreadFunc: while (info->monitoring) is false, the thread returns
MonitorExit(name) ==
    /\ name \in monitorRunning
    /\ Find(shared_memories, name) => ~shared_memories[name].monitoring
    /\ monitorRunning' = monitorRunning \ {name}
    /\ UNCHANGED <<regionSize, sharedMem, lockVars, peerSyncVars, syncVars, senderVars, net, receiverVars, now, idVars, rosterVars,
                   lifeVars, monitorVars, shared_memories, mappings, providerCalls, ret,
                   views, got, cpc>>

\* Faulty variant, for sensitivity: the entry is not removed
EraseNothing(map, name) == map

\* shared_memories.erase(it)
Erase(map, name) == [n \in DOMAIN map \ {name} |-> map[n]]

\* cleanupSharedMemory from UnmapSharedMemory on: the view is unmapped and the
\* handle closed, either of which may fail, the entry is erased, the result
\* is returned
CleanupRelease(name, waited) ==
    \E unmapped \in BOOLEAN : \E closed \in BOOLEAN :
        LET data == shared_memories[name].data
            remaining == IF unmapped THEN UnmapView(data) ELSE views
        IN  /\ views' = remaining
            /\ mappings' = Released(views[data], unmapped, closed, remaining)
            /\ providerCalls' = waited \o <<<<"UnmapViewOfFile", data, unmapped>>,
                                            <<"CloseHandle", name, closed>>>>
            /\ shared_memories' = Erase(shared_memories, name)
            /\ got' = [got EXCEPT ![name] = {}]
            /\ ret' = <<"cleanupSharedMemory", name, unmapped /\ closed>>
            /\ cpc' = NoName

\* cleanupSharedMemory(name) up to WaitForSingleObject(monitor_thread), or to
\* its return when no monitoring thread has to be waited for
CleanupSharedMemory(name) ==
    /\ cpc = NoName
    /\ IF name = NullName
       THEN \* null name: false is returned before the lock is taken
            /\ providerCalls' = <<>>
            /\ ret' = <<"cleanupSharedMemory", name, FALSE>>
            /\ UNCHANGED <<shared_memories, mappings, views, got, cpc>>
       ELSE IF ~Find(shared_memories, name)
       THEN \* nothing to clean up
            /\ providerCalls' = <<>>
            /\ ret' = <<"cleanupSharedMemory", name, TRUE>>
            /\ UNCHANGED <<shared_memories, mappings, views, got, cpc>>
       ELSE IF shared_memories[name].monitoring /\ shared_memories[name].monitor_thread
            THEN /\ shared_memories' = [shared_memories EXCEPT ![name].monitoring = FALSE]
                 /\ cpc' = name
                 /\ providerCalls' = <<>>
                 /\ ret' = <<>>
                 /\ UNCHANGED <<mappings, views, got>>
            ELSE CleanupRelease(name, <<>>)
    /\ UNCHANGED <<regionSize, sharedMem, lockVars, peerSyncVars, syncVars, senderVars, net, receiverVars, now, idVars, rosterVars,
                   lifeVars, monitorVars, monitorRunning>>

\* WaitForSingleObject(monitor_thread, INFINITE) returns; the thread handle is
\* closed and cleanupSharedMemory goes on to its return
CleanupJoin(name) ==
    /\ cpc = name
    /\ name \notin monitorRunning
    /\ CleanupRelease(name, <<<<"WaitForSingleObject", name>>>>)
    /\ UNCHANGED <<regionSize, sharedMem, lockVars, peerSyncVars, syncVars, senderVars, net, receiverVars, now, idVars, rosterVars,
                   lifeVars, monitorVars, monitorRunning>>

\* another process runs initializePrimaryMemory for the name: the mapping is
\* created, or opened when it exists, zero-filled, and its version set to 1
OtherProcessInitialize(name, size) ==
    /\ Find(mappings, name) => (size <= mappings[name].size /\ ~mappings[name].shared)
    /\ mappings' =
           [n \in DOMAIN mappings \cup {name} |->
               IF n # name THEN mappings[n]
               ELSE IF Find(mappings, name)
                    THEN [ZeroFilled(mappings[name], size) EXCEPT
                             !.contents[OffVersion] = InitialVersion, !.shared = TRUE]
                    ELSE Mapping(size, InitialRegion(size), TRUE)]
    /\ providerCalls' = <<>>
    /\ ret' = <<>>
    /\ UNCHANGED <<regionSize, sharedMem, lockVars, peerSyncVars, syncVars, senderVars, net, receiverVars, now, idVars, rosterVars,
                   lifeVars, monitorVars, shared_memories, views, got, monitorRunning, cpc>>

\* a process that has initialised nothing yet
InitRegistrySpec ==
    /\ regionSize = SizeofMemoryLayout
    /\ g_networkCallback = TRUE
    /\ InitSender({})
    /\ InitReceiver
    /\ InitLocks
    /\ InitRegistry(<<>>, {})
    /\ InitIdCallers({})
    /\ InitRoster({}, FALSE)

\* this process initialises, attaches, writes and registers callbacks while
\* another process initialises regions of the same names
NextRegistry ==
    \/ \E name \in RegistryNames : \E size \in RegionSizes :
           InitializeSharedMemory(name, size)
    \/ \E name \in RegistryNames : GetSharedMemoryCall(name)
    \/ \E name \in RegistryNames : \E k \in PayloadWords : \E v \in 0..MaxWord :
           WriteBuffer(name, k, v)
    \/ \E name \in RegistryNames : RegisterMemoryChangeCallback(name)
    \/ \E name \in RegistryNames : \E size \in RegionSizes :
           OtherProcessInitialize(name, size)

SpecRegistry == InitRegistrySpec /\ [][NextRegistry]_vars

\* this process alone: regions are initialised, used, monitored and cleaned up
NextCleanup ==
    \/ \E name \in RegistryNames : \E size \in RegionSizes :
           InitializeSharedMemory(name, size)
    \/ \E name \in RegistryNames : GetSharedMemoryCall(name)
    \/ \E name \in RegistryNames : \E v \in 0..MaxWord : WriteBuffer(name, OffData, v)
    \/ \E name \in RegistryNames : RegisterMemoryChangeCallback(name)
    \/ \E name \in RegistryNames : MonitorExit(name)
    \/ \E name \in RegistryNames \cup {NullName} : CleanupSharedMemory(name)
    \/ \E name \in RegistryNames : CleanupJoin(name)

SpecCleanup == InitRegistrySpec /\ [][NextCleanup]_vars

\* ------------------------------------------------------------ monitorThreadFunc

\* monitorThreadFunc of the region, one pass of its loop in which
\* layout->version > lastVersion: the callback is invoked when one is set,
\* else lastVersion is updated at once.  A pass that finds no newer version
\* only sleeps.
MonitorPoll ==
    /\ mpc = "poll"
    /\ RegionName \in monitorRunning
    /\ shared_memories[RegionName].monitoring
    /\ memA[OffVersion] > mlast
    /\ IF shared_memories[RegionName].callback
       THEN /\ mpc' = "callback"
            /\ notified' = memA[OffVersion]
            /\ UNCHANGED mlast
       ELSE /\ mlast' = memA[OffVersion]
            /\ UNCHANGED <<mpc, notified>>
    /\ UNCHANGED <<regionSize, sharedMem, lockVars, peerSyncVars, syncVars, registryVars, lifeVars, idVars, rosterVars, senderVars, net,
                   receiverVars, now>>

\* the callback returns; lastVersion = layout->version; Sleep(10)
MonitorCallbackReturn ==
    /\ mpc = "callback"
    /\ mlast' = memA[OffVersion]
    /\ mpc' = "poll"
    /\ UNCHANGED <<regionSize, sharedMem, lockVars, peerSyncVars, syncVars, registryVars, lifeVars, idVars, rosterVars, senderVars, net,
                   receiverVars, now, notified>>

\* peer A after initializePrimaryMemory: the region is registered with a
\* callback, its monitoring thread runs, one producer marks changes
InitMonitor ==
    /\ regionSize = SizeofMemoryLayout
    /\ g_networkCallback = TRUE
    /\ InitSender({1})
    /\ InitReceiver
    /\ InitLocks
    /\ InitRegistry(<<RegionName>>, {RegionName})
    /\ InitIdCallers({})
    /\ InitRoster({NodeValue(PeerBHost, PeerBPort)}, FALSE)

NextMonitor ==
    \/ ProducerStep
    \/ MonitorPoll
    \/ MonitorCallbackReturn

SpecMonitor == InitMonitor /\ [][NextMonitor]_vars

\* a mark call that was begun runs to its return
MarkProceeds ==
    \E p \in Producers :
        \/ MarkRegionChanged(p)
        \/ MarkFieldChanged(p)
        \/ VersionLoad(p)
        \/ VersionStore(p)
        \/ SetDirty(p)

\* the monitoring thread takes its steps, the callback returns and every mark
\* call returns; whether the producer marks again is up to the application
FairSpecMonitor ==
    /\ SpecMonitor
    /\ WF_vars(MonitorPoll)
    /\ WF_vars(MonitorCallbackReturn)
    /\ WF_vars(MarkProceeds)

\* ------------------------------------------------------------ cleanup under a running synchronizer

\* the view the synchronizer's pointer was taken from is still mapped
SyncLayoutMapped == sharedMem \in DOMAIN views

\* memorySyncThreadFunc dereferences layout (the wake test, lastVersion =
\* layout->version, layout->dirty = false) after the view was unmapped: an
\* access violation, or an access to whatever is mapped there by then
SyncStrays ==
    /\ spc \in {"poll", "set_last", "fb_set_last", "clear_dirty"}
    /\ g_running
    /\ ~SyncLayoutMapped
    /\ spc' = "stray"
    /\ UNCHANGED <<regionSize, sharedMem, lockVars, peerSyncVars, syncVars, monitorVars, registryVars,
                   lifeVars, idVars, rosterVars, memA, g_pendingChanges, ppc, pargs, ptmp,
                   marksBegun, marksReturned, calls, lastVersion, lastId, net, receiverVars,
                   now>>

\* peer A: the producers and the region's synchronizer run, and the
\* application calls cleanupSharedMemory; stopSharedMemorySync is not called
NextUnmap ==
    \/ SyncLayoutMapped /\ ProducerStep
    \/ SyncLayoutMapped /\ SyncStep
    \/ SyncStrays
    \/ CleanupSharedMemory(RegionName)

InitUnmap ==
    /\ regionSize \in RegionSizes
    /\ g_networkCallback = TRUE
    /\ InitSender({1})
    /\ InitReceiver
    /\ InitLocks
    /\ InitRegistry(<<RegionName>>, {})
    /\ InitIdCallers({})
    /\ InitRoster({NodeValue(PeerBHost, PeerBPort)}, FALSE)

SpecUnmap == InitUnmap /\ [][NextUnmap]_vars

\* ------------------------------------------------------------ start-up order of main

\* initNetworkSync: g_running = true, the receive thread is created
InitNetworkSync ==
    /\ ~g_running
    /\ shpc = "idle"
    /\ rpc = "off"
    /\ g_running' = TRUE
    /\ rpc' = "recv"
    /\ cerr' = {}
    /\ UNCHANGED <<regionSize, sharedMem, lockVars, peerSyncVars, syncVars, monitorVars, registryVars, shpc, idVars,
                   rosterVars, senderVars, net, memB, g_inProgressUpdates, g_networkCallback,
                   callbacks, applied, received, reordered, now>>

\* main: initializePrimaryMemory has registered the region and started its
\* synchronizer thread; initNetworkSync has not been called yet
InitBoot ==
    /\ regionSize = SizeofMemoryLayout
    /\ g_networkCallback = TRUE
    /\ InitSenderAt({1}, "start")
    /\ InitReceiverAt(FALSE)
    /\ InitLocks
    /\ InitRegistry(<<RegionName>>, {})
    /\ InitIdCallers({})
    /\ InitRoster({NodeValue(PeerBHost, PeerBPort)}, FALSE)

\* the command loop of main, where updatePrimaryMemory is called, runs after
\* initNetworkSync
NextBoot ==
    \/ InitNetworkSync
    \/ SyncBegin
    \/ SyncExit
    \/ g_running /\ ProducerStep
    \/ SyncStep

SpecBoot == InitBoot /\ [][NextBoot]_vars

\* the threads take their steps and a mark call that was begun returns
FairSpecBoot ==
    /\ SpecBoot
    /\ WF_vars(InitNetworkSync)
    /\ WF_vars(SyncBegin)
    /\ WF_vars(SyncStep)
    /\ WF_vars(MarkProceeds)

\* ------------------------------------------------------------ generateUniqueId

\* generateUniqueId in thread t, to the comparison with lastId: newId is
\* computed from the tick count and rand(), and incremented when it equals lastId
GenerateUniqueIdCompare(t) ==
    /\ gpc[t] = "idle"
    /\ Len(ids) + Cardinality({u \in SyncThreads : gpc[u] = "store"}) < MaxIds
    /\ \E r \in 0..MaxRand : gnew' = [gnew EXCEPT ![t] = GenerateUniqueId(now, r, lastId)]
    /\ gpc' = [gpc EXCEPT ![t] = "store"]
    /\ UNCHANGED <<regionSize, sharedMem, lockVars, peerSyncVars, syncVars, monitorVars, registryVars, lifeVars, senderVars, net, receiverVars, now, ids, rosterVars>>

\* lastId = newId; return newId
GenerateUniqueIdReturn(t) ==
    /\ gpc[t] = "store"
    /\ lastId' = gnew[t]
    /\ ids' = Append(ids, gnew[t])
    /\ gpc' = [gpc EXCEPT ![t] = "idle"]
    /\ UNCHANGED <<regionSize, sharedMem, lockVars, peerSyncVars, syncVars, monitorVars, registryVars, lifeVars, memA, g_pendingChanges, ppc, pargs, ptmp, marksBegun,
                   marksReturned, calls, spc, lastVersion, net, receiverVars, now, gnew,
                   rosterVars>>

\* generateUniqueId called by one thread
InitIdsSeq ==
    /\ regionSize = SizeofMemoryLayout
    /\ g_networkCallback = TRUE
    /\ InitSender({})
    /\ InitReceiver
    /\ InitLocks
    /\ InitRegistry(<<RegionName>>, {})
    /\ InitIdCallers({1})
    /\ InitRoster({NodeValue(PeerBHost, PeerBPort)}, FALSE)

\* generateUniqueId called by the synchronizer threads of several regions
InitIds ==
    /\ regionSize = SizeofMemoryLayout
    /\ g_networkCallback = TRUE
    /\ InitSender({})
    /\ InitReceiver
    /\ InitLocks
    /\ InitRegistry(<<RegionName>>, {})
    /\ InitIdCallers(SyncThreads)
    /\ InitRoster({NodeValue(PeerBHost, PeerBPort)}, FALSE)

NextIds ==
    \/ \E t \in SyncThreads : GenerateUniqueIdCompare(t)
    \/ \E t \in SyncThreads : GenerateUniqueIdReturn(t)
    \/ \E d \in TickSteps : Tick(d)

SpecIdsSeq == InitIdsSeq /\ [][NextIds]_vars

SpecIds == InitIds /\ [][NextIds]_vars

\* both peers: every frame peer A sends reaches peer B
Init ==
    /\ regionSize = SizeofMemoryLayout
    /\ g_networkCallback = TRUE
    /\ InitSender({1})
    /\ InitReceiver
    /\ InitLocks
    /\ InitRegistry(<<RegionName>>, {})
    /\ InitIdCallers({})
    /\ InitRoster({NodeValue(PeerBHost, PeerBPort)}, FALSE)

Next ==
    \/ ProducerStep
    \/ SyncStep
    \/ ReceiveNet
    \/ CheckUpdateTimeouts

Spec == Init /\ [][Next]_vars

\* ------------------------------------------------------------ mutexes and joins

\* the steps of a function that matter to the mutexes, in program order
Lock(m) == <<"lock", m>>
Unlock(m) == <<"unlock", m>>
TimedLock(m) == <<"timedlock", m>>
\* inside WaitForSingleObject(m, INFINITE)
Wait(m) == <<"wait", m>>
Mutate(c) == <<"mutate", c>>
CloseMutex(m) == <<"close", m>>
Join(t) == <<"join", t>>
Terminate(t) == <<"terminate", t>>
Host(f) == <<"host", f>>
RecvFrom == <<"recvfrom", "">>
StopRunning == <<"g_running = false", "">>
StopMonitoring == <<"monitoring = false", "">>
\* the thread function has returned, or the thread was terminated
ExitedThread == <<<<"exited", "">>>>

\* the mutex the code takes around a container
MutexOf(c) ==
    IF c = "g_pendingChanges" THEN g_changesMutex ELSE g_updatesMutex

\* getSharedMemory, initializeSharedMemory: the registry mutex around the map
GetSharedMemorySteps == <<Lock(shared_memories_mutex), Unlock(shared_memories_mutex)>>

\* markRegionChanged: getSharedMemory, then the push_back under the changes mutex
MarkRegionChangedSteps ==
    GetSharedMemorySteps
    \o <<Lock(g_changesMutex), Mutate("g_pendingChanges"), Unlock(g_changesMutex)>>

\* memorySyncThreadFunc, a pass that finds changes: the fan-out under the
\* remote nodes mutex, changes.clear(), all under the changes mutex
SyncChangesSteps ==
    <<Lock(g_changesMutex), Lock(g_remoteNodesMutex), Unlock(g_remoteNodesMutex),
      Mutate("g_pendingChanges"), Unlock(g_changesMutex)>>

\* the same pass with nothing pending
SyncFallbackSteps ==
    <<Lock(g_changesMutex), Lock(g_remoteNodesMutex), Unlock(g_remoteNodesMutex),
      Unlock(g_changesMutex)>>

\* Faulty variant, for sensitivity: a callback that asks the registry for the buffer
MemoryUpdateCallbackLocking == <<Host("memoryUpdateCallback")>> \o GetSharedMemorySteps

\* main.cpp memoryUpdateCallback: prints
MemoryUpdateCallbackSteps == <<Host("memoryUpdateCallback")>>

\* main.cpp networkUpdateCallback: getSharedMemory, reads, prints
NetworkUpdateCallbackSteps == <<Host("networkUpdateCallback")>> \o GetSharedMemorySteps

\* applyUpdate: getSharedMemory, memcpy, the callback
ApplyUpdateSteps == GetSharedMemorySteps \o NetworkUpdateCallbackSteps

\* checkUpdateTimeouts: the erasures under the updates mutex
CheckUpdateTimeoutsSteps ==
    <<Lock(g_updatesMutex), Mutate("g_inProgressUpdates"), Unlock(g_updatesMutex)>>

\* applyMultipartUpdate: takes the updates mutex itself, sorts the chunks,
\* applies one chunk (one is enough for the mutexes), releases
ApplyMultipartUpdateSteps ==
    <<Lock(g_updatesMutex), Mutate("g_inProgressUpdates")>>
    \o ApplyUpdateSteps
    \o <<Unlock(g_updatesMutex)>>

\* receiveThreadFunc, one pass of the loop for each case of the switch
RecvSingleSteps == <<RecvFrom>> \o ApplyUpdateSteps \o CheckUpdateTimeoutsSteps

\* MSG_START_UPDATE, and MSG_UPDATE_CHUNK with a known id
RecvStartSteps ==
    <<RecvFrom, Lock(g_updatesMutex), Mutate("g_inProgressUpdates"), Unlock(g_updatesMutex)>>
    \o CheckUpdateTimeoutsSteps

\* MSG_END_UPDATE, id found: push_back, applyMultipartUpdate, erase
RecvEndSteps ==
    <<RecvFrom, Lock(g_updatesMutex), Mutate("g_inProgressUpdates")>>
    \o ApplyMultipartUpdateSteps
    \o <<Mutate("g_inProgressUpdates"), Unlock(g_updatesMutex)>>
    \o CheckUpdateTimeoutsSteps

\* MSG_END_UPDATE, id not found
RecvEndUnknownSteps ==
    <<RecvFrom, Lock(g_updatesMutex)>> \o ApplyUpdateSteps \o <<Unlock(g_updatesMutex)>>
    \o CheckUpdateTimeoutsSteps

\* cleanupSharedMemory of a monitored region: monitoring = false and the wait
\* for the monitoring thread, inside the registry mutex
CleanupSharedMemorySteps ==
    <<Lock(shared_memories_mutex), StopMonitoring, Join(MonitorThread),
      Unlock(shared_memories_mutex)>>

\* connectToRemoteNode
ConnectToRemoteNodeSteps == <<Lock(g_remoteNodesMutex), Unlock(g_remoteNodesMutex)>>

\* startSharedMemorySync of a name that is being synchronized
StartSharedMemorySyncSteps == <<Lock(g_syncThreadsMutex), Unlock(g_syncThreadsMutex)>>

\* stopSharedMemorySync
StopSharedMemorySyncSteps ==
    <<Lock(g_syncThreadsMutex), Terminate(SyncThread), Unlock(g_syncThreadsMutex)>>

\* cleanupChangeTracking: each container is cleared after a wait of at most
\* one second for its mutex, then the two handles are closed
CleanupChangeTrackingSteps ==
    <<TimedLock(g_changesMutex), Mutate("g_pendingChanges"), Unlock(g_changesMutex),
      TimedLock(g_updatesMutex), Mutate("g_inProgressUpdates"), Unlock(g_updatesMutex),
      CloseMutex(g_changesMutex), CloseMutex(g_updatesMutex)>>

\* shutdownNetworkSync
ShutdownNetworkSyncSteps ==
    <<StopRunning>>
    \o CleanupChangeTrackingSteps
    \o <<Join(ReceiveThread), Lock(g_syncThreadsMutex), Join(SyncThread),
         Unlock(g_syncThreadsMutex), CloseMutex(g_remoteNodesMutex),
         CloseMutex(g_syncThreadsMutex)>>
    \o ExitedThread

\* what a thread can do next when it is between two operations
Programs(t) ==
    IF t = ProducerThread THEN {MarkRegionChangedSteps}
    ELSE IF t = SyncThread THEN {SyncChangesSteps, SyncFallbackSteps}
    ELSE IF t = ReceiveThread
         THEN {RecvSingleSteps, RecvStartSteps, RecvEndSteps, RecvEndUnknownSteps}
    ELSE IF t = MonitorThread THEN {MemoryUpdateCallbackSteps}
    ELSE IF t = CallerThread
         THEN {MarkRegionChangedSteps, GetSharedMemorySteps, CleanupSharedMemorySteps,
               ConnectToRemoteNodeSteps, StartSharedMemorySyncSteps,
               StopSharedMemorySyncSteps}
    ELSE {ShutdownNetworkSyncSteps}

\* the condition of the loop a thread function runs
LoopCondition(t) ==
    IF t \in {SyncThread, ReceiveThread} THEN g_running
    ELSE IF t = MonitorThread THEN monitoring
    ELSE TRUE

Exited(t) == tpc[t] = ExitedThread

\* the thread that owns the mutex, if any
Owners(m) == {t \in Threads : \E i \in 1..Len(held[t]) : held[t][i] = m}

\* the steps left after the one being taken
Advance(t) == tpc' = [tpc EXCEPT ![t] = Tail(@)]

AtStep(t, op) == tpc[t] # <<>> /\ Head(tpc[t])[1] = op

\* ReleaseMutex: the latest acquisition of m is given back
ReleaseOne(seq, m) ==
    IF \E i \in 1..Len(seq) : seq[i] = m
    THEN LET last == CHOOSE i \in 1..Len(seq) :
                         seq[i] = m /\ \A j \in (i + 1)..Len(seq) : seq[j] # m
         IN  [j \in 1..(Len(seq) - 1) |-> IF j < last THEN seq[j] ELSE seq[j + 1]]
    ELSE seq

\* a thread starts an operation, or a pass of its loop
ThreadBegin(t) ==
    /\ tpc[t] = <<>>
    /\ LoopCondition(t)
    /\ \E prog \in Programs(t) : tpc' = [tpc EXCEPT ![t] = prog]
    /\ UNCHANGED <<held, handles, monitoring>>
    /\ UNCHANGED <<regionSize, sharedMem, peerSyncVars, syncVars, monitorVars, registryVars,
                   lifeVars, idVars, rosterVars, senderVars, net, receiverVars, now>>

\* the loop condition is false: the thread function returns.  A mutex the
\* thread still owns, its handle having been set to NULL before the unlock, is
\* abandoned
ThreadExit(t) ==
    /\ tpc[t] = <<>>
    /\ ~LoopCondition(t)
    /\ tpc' = [tpc EXCEPT ![t] = ExitedThread]
    /\ held' = [held EXCEPT ![t] = <<>>]
    /\ UNCHANGED <<handles, monitoring>>
    /\ UNCHANGED <<regionSize, sharedMem, peerSyncVars, syncVars, monitorVars, registryVars,
                   lifeVars, idVars, rosterVars, senderVars, net, receiverVars, now>>

\* lock...Mutex(): nothing when the handle is NULL, else WaitForSingleObject
\* (INFINITE), which returns at once when no other thread owns the mutex (a
\* thread that owns it already acquires it once more) and waits otherwise
Acquire(t) ==
    /\ AtStep(t, "lock")
    /\ LET m == Head(tpc[t])[2]
       IN  IF m \notin handles
           THEN Advance(t) /\ UNCHANGED held
           ELSE IF Owners(m) \subseteq {t}
           THEN Advance(t) /\ held' = [held EXCEPT ![t] = Append(@, m)]
           ELSE /\ tpc' = [tpc EXCEPT ![t] = <<Wait(m)>> \o Tail(@)]
                /\ UNCHANGED held
    /\ UNCHANGED <<handles, monitoring>>
    /\ UNCHANGED <<regionSize, sharedMem, peerSyncVars, syncVars, monitorVars, registryVars,
                   lifeVars, idVars, rosterVars, senderVars, net, receiverVars, now>>

\* the wait ends: the owner has released the mutex or has ended.  When the
\* handle was closed during the wait the behaviour of the wait is undefined:
\* it goes on for the mutex as before, or it returns without the mutex
WaitReturns(t) ==
    /\ AtStep(t, "wait")
    /\ LET m == Head(tpc[t])[2]
       IN  \/ /\ Owners(m) \subseteq {t}
              /\ held' = [held EXCEPT ![t] = Append(@, m)]
           \/ /\ m \notin handles
              /\ UNCHANGED held
    /\ Advance(t)
    /\ UNCHANGED <<handles, monitoring>>
    /\ UNCHANGED <<regionSize, sharedMem, peerSyncVars, syncVars, monitorVars, registryVars,
                   lifeVars, idVars, rosterVars, senderVars, net, receiverVars, now>>

\* WaitForSingleObject(mutex, 1000) of cleanupChangeTracking: the mutex is
\* acquired, or another thread owns it for the whole second and the wait
\* times out
TimedAcquire(t) ==
    /\ AtStep(t, "timedlock")
    /\ LET m == Head(tpc[t])[2]
       IN  IF Owners(m) \subseteq {t}
           THEN held' = [held EXCEPT ![t] = Append(@, m)]
           ELSE UNCHANGED held
    /\ Advance(t)
    /\ UNCHANGED <<handles, monitoring>>
    /\ UNCHANGED <<regionSize, sharedMem, peerSyncVars, syncVars, monitorVars, registryVars,
                   lifeVars, idVars, rosterVars, senderVars, net, receiverVars, now>>

\* unlock...Mutex(): ReleaseMutex, or nothing when the handle is NULL
Release(t) ==
    /\ AtStep(t, "unlock")
    /\ held' = [held EXCEPT ![t] = IF Head(tpc[t])[2] \in handles
                                   THEN ReleaseOne(@, Head(tpc[t])[2])
                                   ELSE @]
    /\ Advance(t)
    /\ UNCHANGED <<handles, monitoring>>
    /\ UNCHANGED <<regionSize, sharedMem, peerSyncVars, syncVars, monitorVars, registryVars,
                   lifeVars, idVars, rosterVars, senderVars, net, receiverVars, now>>

\* push_back, clear, insertion, erase or sort on a container of the tracker,
\* a host callback, or recvfrom returning a frame
Proceed(t) ==
    /\ AtStep(t, "mutate") \/ AtStep(t, "host") \/ AtStep(t, "recvfrom")
    /\ Advance(t)
    /\ UNCHANGED <<held, handles, monitoring>>
    /\ UNCHANGED <<regionSize, sharedMem, peerSyncVars, syncVars, monitorVars, registryVars,
                   lifeVars, idVars, rosterVars, senderVars, net, receiverVars, now>>

\* CloseHandle(mutex); mutex = NULL.  A thread that owns the mutex at that
\* moment goes on owning it
CloseHandle(t) ==
    /\ AtStep(t, "close")
    /\ handles' = handles \ {Head(tpc[t])[2]}
    /\ Advance(t)
    /\ UNCHANGED <<held, monitoring>>
    /\ UNCHANGED <<regionSize, sharedMem, peerSyncVars, syncVars, monitorVars, registryVars,
                   lifeVars, idVars, rosterVars, senderVars, net, receiverVars, now>>

\* WaitForSingleObject(thread, INFINITE) returns once the thread has ended
JoinThread(t) ==
    /\ AtStep(t, "join")
    /\ Exited(Head(tpc[t])[2])
    /\ Advance(t)
    /\ UNCHANGED <<held, handles, monitoring>>
    /\ UNCHANGED <<regionSize, sharedMem, peerSyncVars, syncVars, monitorVars, registryVars,
                   lifeVars, idVars, rosterVars, senderVars, net, receiverVars, now>>

\* TerminateThread: the thread ends where it is; the mutexes it owned are
\* abandoned, and an abandoned mutex is granted to the next thread that waits
TerminateThread(t) ==
    /\ AtStep(t, "terminate")
    /\ LET u == Head(tpc[t])[2]
       IN  /\ tpc' = [tpc EXCEPT ![t] = Tail(@), ![u] = ExitedThread]
           /\ held' = [held EXCEPT ![u] = <<>>]
    /\ UNCHANGED <<handles, monitoring>>
    /\ UNCHANGED <<regionSize, sharedMem, peerSyncVars, syncVars, monitorVars, registryVars,
                   lifeVars, idVars, rosterVars, senderVars, net, receiverVars, now>>

\* shutdownNetworkSync: g_running = false
ClearRunning(t) ==
    /\ AtStep(t, "g_running = false")
    /\ g_running' = FALSE
    /\ Advance(t)
    /\ UNCHANGED <<held, handles, monitoring>>
    /\ UNCHANGED <<regionSize, sharedMem, peerSyncVars, syncVars, monitorVars, registryVars,
                   shpc, idVars, rosterVars, senderVars, net, receiverVars, now>>

\* cleanupSharedMemory: it->second.monitoring = false
ClearMonitoring(t) ==
    /\ AtStep(t, "monitoring = false")
    /\ monitoring' = FALSE
    /\ Advance(t)
    /\ UNCHANGED <<held, handles>>
    /\ UNCHANGED <<regionSize, sharedMem, peerSyncVars, syncVars, monitorVars, registryVars,
                   lifeVars, idVars, rosterVars, senderVars, net, receiverVars, now>>

\* the application calls the public operations and marks changes while the
\* workers run; shutdownNetworkSync is not called
NextCalls ==
    \E t \in Threads \ {ShutdownThread} :
        \/ ThreadBegin(t)
        \/ ThreadExit(t)
        \/ Acquire(t)
        \/ WaitReturns(t)
        \/ Release(t)
        \/ Proceed(t)
        \/ JoinThread(t)
        \/ TerminateThread(t)
        \/ ClearMonitoring(t)

SpecCalls == Init /\ [][NextCalls]_vars

\* shutdownNetworkSync runs while a producer, the synchronizer and the
\* receive thread are in their loops
NextLocks ==
    \E t \in {ProducerThread, SyncThread, ReceiveThread, ShutdownThread} :
        \/ ThreadBegin(t)
        \/ ThreadExit(t)
        \/ Acquire(t)
        \/ WaitReturns(t)
        \/ TimedAcquire(t)
        \/ Release(t)
        \/ Proceed(t)
        \/ CloseHandle(t)
        \/ JoinThread(t)
        \/ ClearRunning(t)

SpecLocks == Init /\ [][NextLocks]_vars

\* ------------------------------------------------------------ properties

\* nothing is left to do on either peer unless a producer marks again
Quiescent ==
    /\ ProducersIdle
    /\ spc = "poll"
    /\ ~SyncWakes(memA, lastVersion)
    /\ net = <<>>
    /\ rpc = "recv"

\* C1: round trip.  Once the producer has stopped and every frame peer A sent
\* has been delivered (here even in the order sent), peer B's region holds
\* peer A's bytes, with no further mark call: stated on the payload words the
\* producer writes and marks.
C1_RoundTrip ==
    (Quiescent /\ ~reordered) => \A k \in PayloadWords : memB[k] = memA[k]

\* C2: no increment is lost.  When every markRegionChanged call begun has
\* returned, the version is its initial value plus the number of calls.
C2_VersionCountsCalls ==
    ProducersIdle => memA[OffVersion] = InitialVersion + marksReturned

\* C3: pending[name] holds one (offset, size) entry per mark call made since
\* the synchronizer last drained it, in call order, whichever of
\* markRegionChanged and markFieldChanged made the call.
C3_PendingIsCallLog ==
    LET pend == PendingOf(RegionName)
    IN  /\ Len(pend) = Len(calls)
        /\ \A i \in 1..Len(calls) :
               pend[i].offset = calls[i][1] /\ pend[i].size = calls[i][2]

C3_Witness ==
    /\ Len(calls) = 3
    /\ calls[1][3] = "markFieldChanged"
    /\ calls[2][3] = "markRegionChanged"
    /\ calls[1][1] # calls[2][1]
    /\ Len(PendingOf(RegionName)) = 3

\* the frames the step appends to net
NewFrames == SubSeq(net', Len(net) + 1, Len(net'))

\* C8: an emission cycle with n >= 1 pending changes sends n frames in the
\* order of the changes, frame i with change i's offset and size, all with one
\* update id; SINGLE when n = 1, else START, CHUNK.., END.
C8_EmissionFrames ==
    [][(spc = "poll" /\ spc' = "set_last") =>
        LET changes == PendingOf(RegionName)
            n == Len(changes)
        IN  /\ n >= 1
            /\ Len(net') = Len(net) + n
            /\ SubSeq(net', 1, Len(net)) = net
            /\ \A i \in 1..n :
                /\ NewFrames[i].offset = changes[i].offset
                /\ NewFrames[i].size = changes[i].size
                /\ NewFrames[i].updateId = NewFrames[1].updateId
                /\ NewFrames[i].msgType =
                       IF n = 1 THEN "SINGLE"
                       ELSE IF i = 1 THEN "START"
                       ELSE IF i = n THEN "END" ELSE "CHUNK"]_vars

C8_Witness ==
    /\ spc = "set_last"
    /\ Len(net) = 3
    /\ net[1].msgType = "START" /\ net[2].msgType = "CHUNK" /\ net[3].msgType = "END"
    /\ net[1].offset # net[2].offset

\* C9: with nothing pending the synchronizer sends one SINGLE frame of
\* offset 0 whose size is the region's registered size and whose data is the
\* whole region, under a fresh update id.
C9_FallbackWholeRegion ==
    [][(spc = "poll" /\ spc' = "fb_set_last") =>
        /\ Len(net') = Len(net) + 1
        /\ NewFrames[1].msgType = "SINGLE"
        /\ NewFrames[1].offset = 0
        /\ NewFrames[1].size = regionSize
        /\ \A k \in 0..(regionSize - 1) : NewFrames[1].data[k + 1] = memA[k]
        /\ NewFrames[1].updateId # lastId]_vars

\* ---- receive thread

UpdateIds == 1..MaxUpdateId

\* the frame the receive thread takes in this step
Taken == received'[Len(received')]

\* the frames the step copies into a region
NewApplied == SubSeq(applied', Len(applied) + 1, Len(applied'))

Covers(m, k) == m.offset <= k /\ k < m.offset + m.size

\* word k of a region after the frames of seq were written over mem in order
WordAfter(mem, seq, k) ==
    LET covering == {i \in 1..Len(seq) : Covers(seq[i], k)}
    IN  IF covering = {} THEN mem[k]
        ELSE LET last == CHOOSE i \in covering : \A j \in covering : j <= i
             IN  seq[last].data[k - seq[last].offset + 1]

SameFrames(s, t) ==
    /\ Len(s) = Len(t)
    /\ \E p \in Permutations(1..Len(s)) : \A i \in 1..Len(s) : s[i] = t[p[i]]

ReceivedOf(u) == {i \in 1..Len(received) : received[i].updateId = u}

\* the frames received under id u are one whole multipart update
WholeUpdate(u) ==
    /\ Cardinality(ReceivedOf(u)) >= 2
    /\ Cardinality({i \in ReceivedOf(u) : received[i].msgType = "START"}) = 1
    /\ Cardinality({i \in ReceivedOf(u) : received[i].msgType = "END"}) = 1
    /\ \A i \in ReceivedOf(u) : received[i].msgType # "SINGLE"

\* C4: a multipart update whose frames have all arrived within the timeout,
\* in whatever order, has every frame written to the region.
C4_AnyArrivalOrder ==
    \A u \in UpdateIds :
        (WholeUpdate(u) /\ now <= UPDATE_TIMEOUT_MS) =>
            \A i \in ReceivedOf(u) : \E j \in 1..Len(applied) : applied[j] = received[i]

\* C5: END for an id in g_inProgressUpdates applies the buffered frames and the
\* END frame in ascending offset order whatever their arrival order, the region
\* ends as if they were written in that order, and the id is erased.
C5_EndAppliesByOffset ==
    [][(rpc = "recv" /\ rpc' = "check" /\ Taken.msgType = "END"
            /\ Taken.updateId \in DOMAIN g_inProgressUpdates) =>
        /\ SameFrames(NewApplied,
                      Append(g_inProgressUpdates[Taken.updateId].chunks, Taken))
        /\ \A i \in 1..Len(NewApplied) : \A j \in 1..Len(NewApplied) :
               i < j => NewApplied[i].offset <= NewApplied[j].offset
        /\ \A k \in DOMAIN memB : memB'[k] = WordAfter(memB, NewApplied, k)
        /\ Taken.updateId \notin DOMAIN g_inProgressUpdates']_vars

\* END was applied before a frame that had arrived before it
C5_Witness ==
    /\ rpc = "check"
    /\ Len(received) >= 2
    /\ received[Len(received)].msgType = "END"
    /\ Len(applied) = 2
    /\ applied[1] = received[Len(received)]
    /\ applied[2] = received[1]
    /\ applied[1].offset < applied[2].offset
    /\ g_inProgressUpdates = << >>

\* C6: a record older than the timeout is eventually removed, also when no
\* further frame arrives.
C6_AgedRecordRemoved ==
    \A u \in UpdateIds :
        (u \in DOMAIN g_inProgressUpdates
            /\ now - g_inProgressUpdates[u].startTime > UPDATE_TIMEOUT_MS)
        ~> (u \notin DOMAIN g_inProgressUpdates)

\* C7: checkUpdateTimeouts removes exactly the records started more than
\* 5000 ms ago, keeps the others as they are, writes no region and calls no
\* callback.
C7_TimeoutRemovesAged ==
    [][(rpc = "check" /\ rpc' = "recv") =>
        /\ DOMAIN g_inProgressUpdates' =
               {u \in DOMAIN g_inProgressUpdates :
                    g_inProgressUpdates[u].startTime >= now - 5000}
        /\ \A u \in DOMAIN g_inProgressUpdates' :
               g_inProgressUpdates'[u] = g_inProgressUpdates[u]
        /\ memB' = memB
        /\ callbacks' = callbacks
        /\ applied' = applied]_vars

\* the latest check removed one record and kept another
C7_Witness ==
    /\ rpc = "recv"
    /\ \E u \in UpdateIds : cerr = {<<"timed out and was discarded", u>>}
    /\ \E u \in DOMAIN g_inProgressUpdates :
           now - g_inProgressUpdates[u].startTime <= 5000

CallbackArgs(seq) == [i \in 1..Len(seq) |-> <<seq[i].memoryName, seq[i].offset, seq[i].size>>]

\* the frames a receive step may apply: the one taken and those buffered under its id
Appliable ==
    {Taken} \cup
    (IF Taken.updateId \in DOMAIN g_inProgressUpdates
     THEN {g_inProgressUpdates[Taken.updateId].chunks[i] :
               i \in 1..Len(g_inProgressUpdates[Taken.updateId].chunks)}
     ELSE {})

\* C11: with a callback registered, each receive step invokes it once per
\* frame it copies into a region, with that frame's (name, offset, size), and
\* writes the region only through those frames.  A CHUNK with an unknown id, a
\* frame naming a region that does not exist and the timeout check copy
\* nothing and call nothing; a frame of a record the timeout check erased is
\* no longer among the frames a later step can apply.
C11_CallbackPerAppliedFrame ==
    [][/\ (rpc = "recv" /\ rpc' = "check") =>
            /\ g_networkCallback => callbacks' = callbacks \o CallbackArgs(NewApplied)
            /\ \A i \in 1..Len(NewApplied) :
                   NewApplied[i] \in Appliable /\ NewApplied[i].memoryName = RegionName
            /\ \A k \in DOMAIN memB : memB'[k] = WordAfter(memB, NewApplied, k)
            /\ ((Taken.msgType = "CHUNK" /\ Taken.updateId \notin DOMAIN g_inProgressUpdates)
                    \/ \A m \in Appliable : m.memoryName # RegionName) =>
                   (NewApplied = <<>> /\ callbacks' = callbacks /\ memB' = memB)
       /\ (rpc = "check" /\ rpc' = "recv") =>
            (applied' = applied /\ callbacks' = callbacks /\ memB' = memB)]_vars

\* one frame was applied with one callback; a CHUNK with an unknown id and a
\* frame for a missing region were dropped
C11_Witness ==
    /\ g_networkCallback
    /\ Len(received) = 3
    /\ Len(applied) = 1
    /\ callbacks = CallbackArgs(applied)
    /\ memB # InitialRegion(regionSize)
    /\ \E i \in 1..3 : received[i].msgType = "CHUNK" /\ received[i].memoryName = RegionName
    /\ \E i \in 1..3 : received[i].msgType = "SINGLE" /\ received[i].memoryName = ForeignName

\* the step in which producer p's mark call on an unknown name returns
UnknownMarkReturns(p) ==
    ppc[p] = "call" /\ pargs[p][4] = UnknownName /\ ppc'[p] # "call"

C13_UnknownRegionRecorded ==
    [][\A p \in Producers : UnknownMarkReturns(p) =>
            /\ UnknownName \in DOMAIN g_pendingChanges'
            /\ Len(g_pendingChanges'[UnknownName]) = 1
            /\ g_pendingChanges'[UnknownName][1].offset = pargs[p][1]
            /\ g_pendingChanges'[UnknownName][1].size = pargs[p][2]]_vars

C15_ThreePairwiseDistinct ==
    \A i \in 3..Len(ids) :
        ids[i] # ids[i - 1] /\ ids[i - 1] # ids[i - 2] /\ ids[i] # ids[i - 2]

\* the roster entries that lead to the endpoint ip:port
EntriesFor(nodes, ip, port) ==
    {k \in DOMAIN nodes : NodeIp(nodes[k]) = ip /\ NodePort(nodes[k]) = port}

\* C16: connect(host, port) leaves exactly one roster entry for host:port,
\* keeps the other entries, and sends exactly one probe frame, named "TEST"
\* with offset 0 and size 0, to that endpoint; the entry is there whether or
\* not the probe send failed.
C16_ConnectAddsOnceAndProbes ==
    [][\A ip \in Hosts : \A port \in Ports :
          ConnectToRemoteNode(ip, port) =>
            /\ Cardinality(EntriesFor(g_remoteNodes', ip, port)) = 1
            /\ \A k \in DOMAIN g_remoteNodes :
                   k \in DOMAIN g_remoteNodes' /\ g_remoteNodes'[k] = g_remoteNodes[k]
            /\ Cardinality(DOMAIN g_remoteNodes') <= Cardinality(DOMAIN g_remoteNodes) + 1
            /\ Cardinality(sent') = 1
            /\ \A c \in sent' :
                   /\ c.ip = ip /\ c.port = port
                   /\ c.message.memoryName = "TEST"
                   /\ c.message.offset = 0
                   /\ c.message.size = 0]_vars

\* two nodes are in the roster, the latest connect's probe send failed
C16_Witness ==
    /\ Cardinality(DOMAIN g_remoteNodes) = 2
    /\ \E c \in sent :
           /\ ~c.ok
           /\ c.message.memoryName = "TEST"
           /\ c.port = 10
           /\ Cardinality(EntriesFor(g_remoteNodes, c.ip, c.port)) = 1

\* C17: each frame of an emission is sent once to every node that is in the
\* roster when it is fanned out, so to every node an earlier connect added,
\* whatever the other sends of the fan-out returned.
C17_FanOutToEveryPeer ==
    [][(spc = "poll" /\ spc' \in {"set_last", "fb_set_last"}) =>
          LET changes == PendingOf(RegionName)
              n == IF spc' = "set_last" THEN Len(changes) ELSE 1
          IN  \A i \in 1..n : \A ip \in Hosts : \A port \in Ports :
                  NodeValue(ip, port) \in DOMAIN g_remoteNodes =>
                      Cardinality({c \in sent' :
                          /\ c.frame = i /\ c.ip = ip /\ c.port = port
                          /\ c.message.memoryName = RegionName
                          /\ spc' = "set_last" =>
                                 (c.message.offset = changes[i].offset
                                     /\ c.message.size = changes[i].size)}) = 1]_vars

\* the send of the first frame to one node failed; the second frame went to
\* that node and both frames went to the other node
C17_Witness ==
    /\ spc = "set_last"
    /\ Cardinality(DOMAIN g_remoteNodes) = 2
    /\ Cardinality(sent) = 4
    /\ \E c \in sent : \E d \in sent :
           /\ c.frame = 1 /\ ~c.ok
           /\ d.frame = 2 /\ d.ok /\ d.ip = c.ip /\ d.port = c.port
    /\ Cardinality({c \in sent : c.ok}) = 3

\* C18: after shutdownNetworkSync has returned, g_remoteNodes is empty.
C18_RosterEmptyAfterShutdown ==
    shpc = "done" => DOMAIN g_remoteNodes = {}

\* C19: once shutdownNetworkSync has set g_running to false it eventually
\* returns, with the receive thread terminated, also when no further datagram
\* arrives.
C19_ShutdownReturns ==
    (shpc # "idle") ~> (shpc = "done" /\ rpc = "exited")

\* C20: initializeSharedMemory(name, size) on a name that is in
\* shared_memories returns true and changes nothing: the entry (buffer, size,
\* monitoring state), the contents of every mapping are as before and no
\* mapping call is made, whatever size is passed.
C20_InitializeIdempotent ==
    [][\A name \in RegistryNames : \A size \in RegionSizes :
          (InitializeSharedMemory(name, size) /\ name \in DOMAIN shared_memories) =>
            /\ ret' = <<"initializeSharedMemory", name, size, TRUE>>
            /\ shared_memories' = shared_memories
            /\ mappings' = mappings
            /\ providerCalls' = <<>>]_vars

\* initializeSharedMemory with another size has just returned true for a
\* region that is monitored and whose buffer holds data
C20_Witness ==
    /\ ret = <<"initializeSharedMemory", RegionName, SizeofMemoryLayout + 1, TRUE>>
    /\ providerCalls = <<>>
    /\ RegionName \in DOMAIN shared_memories
    /\ shared_memories[RegionName].size = SizeofMemoryLayout
    /\ shared_memories[RegionName].monitoring
    /\ mappings[RegionName].contents[OffData] = 1

\* C21: initializeSharedMemory(name, size) on a name that is not in
\* shared_memories zero-fills the buffer only when it creates the mapping;
\* when a mapping of that name exists already, created by another process,
\* the words of that mapping are as they were before the call.
C21_ZeroFillOnlyWhenCreated ==
    [][\A name \in RegistryNames : \A size \in RegionSizes :
          (/\ InitializeSharedMemory(name, size)
           /\ name \notin DOMAIN shared_memories
           /\ ret' = <<"initializeSharedMemory", name, size, TRUE>>) =>
            IF name \in DOMAIN mappings
            THEN mappings'[name].contents = mappings[name].contents
            ELSE mappings'[name].contents = ZeroWords(size)]_vars

\* C22: for a name in shared_memories, getSharedMemory(name) returns the
\* buffer recorded for it, a view of that name's mapping, and changes neither
\* shared_memories nor any view or mapping; it is the buffer every earlier
\* getSharedMemory of the name returned since the name was registered, so the
\* words written through one pointer are the words read through the other.
C22_GetReturnsRegisteredBuffer ==
    [][\A name \in RegistryNames :
          (GetSharedMemoryCall(name) /\ name \in DOMAIN shared_memories) =>
            /\ ret' = <<"getSharedMemory", name, shared_memories[name].data>>
            /\ ret'[3] \in DOMAIN views /\ views[ret'[3]] = name
            /\ \A p \in got[name] : p = ret'[3]
            /\ shared_memories' = shared_memories
            /\ views' = views
            /\ mappings' = mappings]_vars

\* getSharedMemory has returned the buffer of a region that was written after
\* it was initialised, while a view of another region is mapped as well
C22_Witness ==
    /\ ret = <<"getSharedMemory", RegionName, 2>>
    /\ got[RegionName] = {2}
    /\ RegionName \in DOMAIN shared_memories
    /\ mappings[RegionName].contents[OffData] = 1
    /\ 1 \in DOMAIN views /\ views[1] = UnknownName

\* the step in which cleanupSharedMemory(name) returns
CleanupReturns(name) ==
    (CleanupSharedMemory(name) \/ CleanupJoin(name)) /\ cpc' = NoName

\* C23: when cleanupSharedMemory(name) returns, name is not in
\* shared_memories and no monitoring thread of it is running, whether
\* UnmapViewOfFile or CloseHandle failed or not; on a name that is not in
\* shared_memories it returns true and changes no entry, view, mapping or
\* thread.
C23_CleanupDeregisters ==
    [][\A name \in RegistryNames :
          /\ CleanupReturns(name) =>
                /\ name \notin DOMAIN shared_memories'
                /\ name \notin monitorRunning'
                /\ ret'[1] = "cleanupSharedMemory" /\ ret'[2] = name
          /\ (CleanupSharedMemory(name) /\ name \notin DOMAIN shared_memories) =>
                /\ ret' = <<"cleanupSharedMemory", name, TRUE>>
                /\ shared_memories' = shared_memories
                /\ views' = views
                /\ mappings' = mappings
                /\ monitorRunning' = monitorRunning]_vars

\* cleanupSharedMemory has waited for the monitoring thread of the region and
\* has returned false, unmap having failed, while another region is monitored
C23_Witness ==
    /\ ret = <<"cleanupSharedMemory", RegionName, FALSE>>
    /\ Len(providerCalls) = 3
    /\ providerCalls[1] = <<"WaitForSingleObject", RegionName>>
    /\ providerCalls[2][3] = FALSE
    /\ RegionName \notin DOMAIN shared_memories
    /\ monitorRunning = {UnknownName}
    /\ \E a \in DOMAIN views : views[a] = RegionName

\* the values the version takes when the producer advances it
AdvancedVersions == (InitialVersion + 1)..(InitialVersion + MaxMarks)

\* C24: while the region is monitored, every advance of its version is
\* eventually followed by an invocation of the callback that starts after the
\* advance, so with the version at or beyond the value the advance gave it;
\* this includes an advance made while the callback is running.
C24_EveryAdvanceReported ==
    \A v \in AdvancedVersions : (memA[OffVersion] = v) ~> (notified >= v)

\* C25: the version of a region never decreases, on the peer whose producer
\* marks changes and on the peer whose receive thread applies the frames.
C25_VersionNeverDecreases ==
    [][/\ memA'[OffVersion] >= memA[OffVersion]
       /\ memB'[OffVersion] >= memB[OffVersion]]_vars

\* word w of peer B's region after the first n copies the receive thread made
WordAtCopy(n, w) == WordAfter(InitialRegion(regionSize), SubSeq(applied, 1, n), w)

\* C26: one producer, every frame delivered, here even in the order sent.
\* The k-th mark call writes the value k into its range, so the word wa last
\* written by call i and the word wb last written by a later call j > i hold
\* i and j on peer A.  At no moment, so after none of the copies the receive
\* thread makes, does peer B hold the later call's bytes (j or newer) in wb
\* without holding the earlier call's bytes (i or newer) in wa.
C26_EarlierMarkSeenFirst ==
    ~reordered =>
        \A wa \in PayloadWords : \A wb \in PayloadWords :
            (0 < memA[wa] /\ memA[wa] < memA[wb]) =>
                \A n \in 0..Len(applied) :
                    WordAtCopy(n, wb) >= memA[wb] => WordAtCopy(n, wa) >= memA[wa]

\* C27: after every step there is at most one synchronizer thread per name,
\* and none for a name that is not in g_syncThreads.  startSharedMemorySync on
\* a name already started returns true and creates no thread; when
\* stopSharedMemorySync(name) has returned no thread of the name is left; a
\* frame of the region is emitted only while the region is started.
C27_OneWorkerPerRegion ==
    [][/\ \A name \in RegistryNames :
            /\ workers'[name] <= 1
            /\ name \notin g_syncThreads' => workers'[name] = 0
            /\ (StartSharedMemorySync(name) /\ name \in g_syncThreads) =>
                   /\ ret' = <<"startSharedMemorySync", name, TRUE>>
                   /\ workers' = workers
                   /\ g_syncThreads' = g_syncThreads
            /\ StopSharedMemorySync(name) =>
                   (workers'[name] = 0 /\ name \notin g_syncThreads')
       /\ net' # net => RegionName \in g_syncThreads]_vars

\* the synchronizer of the region has sent frames and was stopped with a
\* change pending and the region dirty; the thread of another name is alive
C27_Witness ==
    /\ ret = <<"stopSharedMemorySync", RegionName>>
    /\ RegionName \notin g_syncThreads
    /\ workers[RegionName] = 0
    /\ spc = "off"
    /\ Len(net) >= 1
    /\ Len(PendingOf(RegionName)) >= 1
    /\ SyncWakes(memA, lastVersion)
    /\ workers[UnknownName] = 1

\* C28: when a cycle of the synchronizer finishes and no producer ran during
\* it, the region is not dirty, nothing is pending for it and lastVersion is
\* the region's version.  (With no producer running during a cycle the region
\* is never found dirty and newer with nothing pending.)
C28_CycleLeavesClean ==
    [][/\ SyncClearDirty =>
            /\ memA'[OffDirty] = 0
            /\ PendingOf(RegionName)' = <<>>
            /\ lastVersion' = memA'[OffVersion]
       /\ (ProducersIdle' /\ spc' = "poll" /\ SyncWakes(memA', lastVersion')) =>
            PendingOf(RegionName)' # <<>>]_vars

\* a cycle that sent three changes, marked by two producers, has finished
C28_Witness ==
    /\ spc = "poll"
    /\ ProducersIdle
    /\ Len(net) = 3
    /\ net[3].msgType = "END"
    /\ marksReturned = 3
    /\ memA[OffDirty] = 0
    /\ PendingOf(RegionName) = <<>>
    /\ lastVersion = memA[OffVersion]
    /\ lastVersion > InitialVersion

\* C29: in every state, a region that is dirty has a non-empty vector of
\* pending changes.
C29_DirtyImpliesPending ==
    memA[OffDirty] # 0 => PendingOf(RegionName) # <<>>

\* C30: every change stored in the vector of pending changes of a region lies
\* inside the region (offset + size <= region size) and fits the data field of
\* one message (size <= MAX_SYNC_DATA_SIZE), whatever offset and size the caller
\* of markRegionChanged passed.
C30_StoredChangesInRange ==
    \A n \in DOMAIN g_pendingChanges :
        \A i \in 1..Len(g_pendingChanges[n]) :
            /\ g_pendingChanges[n][i].offset + g_pendingChanges[n][i].size <= regionSize
            /\ g_pendingChanges[n][i].size <= MAX_SYNC_DATA_SIZE

\* C33: when the receive thread takes a START frame whose update id already has
\* an in-progress record, the frame is appended to the record's chunks and the
\* record's startTime, which checkUpdateTimeouts compares, stays the arrival
\* time of the first frame.
C33_StartKeepsFirstArrival ==
    [][(/\ Len(received') = Len(received) + 1
        /\ Taken.msgType = MSG_START_UPDATE
        /\ Taken.updateId \in DOMAIN g_inProgressUpdates)
       => /\ Taken.updateId \in DOMAIN g_inProgressUpdates'
          /\ g_inProgressUpdates'[Taken.updateId].chunks =
                 Append(g_inProgressUpdates[Taken.updateId].chunks, Taken)
          /\ g_inProgressUpdates'[Taken.updateId].startTime =
                 g_inProgressUpdates[Taken.updateId].startTime]_vars

\* C34: no pending change is stranded.  Whenever the synchronizer is between
\* two cycles and the region's vector of pending changes is non-empty, the
\* region is dirty and its version is above the synchronizer's lastVersion, so
\* that the next poll emits the changes.  Stated for the states in which no
\* producer is inside a mark call: a call that has pushed its change and not
\* yet advanced the version is not a stranded change.
C34_NoPendingStranded ==
    (/\ spc = "poll"
     /\ ProducersIdle
     /\ PendingOf(RegionName) # <<>>)
    => (memA[OffDirty] # 0 /\ memA[OffVersion] > lastVersion)

\* C35: no echo.  On a peer where markRegionChanged is never called, applying
\* received frames never makes the peer's own synchronizer of the region start
\* an emission cycle, and the peer sends no update frame for the region, also
\* when an applied frame covers the version and dirty words.
C35_NoEcho ==
    spcB = "poll" /\ echoed = <<>>

\* C36: every copy stays in bounds.  Each frame the receive thread has copied
\* into the region wrote only words inside the region and read at most
\* MAX_SYNC_DATA_SIZE words of the frame's data field; each frame the
\* synchronizer has filled carries at most MAX_SYNC_DATA_SIZE words, read from
\* inside the region.
C36_CopiesInBounds ==
    /\ \A i \in 1..Len(applied) :
           /\ applied[i].offset + applied[i].size <= regionSize
           /\ applied[i].size <= MAX_SYNC_DATA_SIZE
    /\ \A i \in 1..Len(net) :
           /\ net[i].offset + net[i].size <= regionSize
           /\ net[i].size <= MAX_SYNC_DATA_SIZE

\* C38: a synchronizer that was started before initNetworkSync is still at
\* work afterwards: once a mark call made after the initialisation has
\* returned, frames are eventually sent to the peers.
C38_MarkedAfterInitEmitted ==
    (g_running /\ marksReturned > 0) ~> (net # <<>>)

\* the place of a mutex in the order registry, pending changes, in-flight
\* updates, peer roster, synchronizer workers
LockRank(m) ==
    IF m = shared_memories_mutex THEN 1
    ELSE IF m = g_changesMutex THEN 2
    ELSE IF m = g_updatesMutex THEN 3
    ELSE IF m = g_remoteNodesMutex THEN 4
    ELSE 5

\* C31: lock discipline.  No thread acquires a mutex it already owns, and a
\* thread that owns more than one of the five mutexes acquired them in the
\* order registry, pending changes, in-flight updates, peer roster,
\* synchronizer workers.
C31_LockDiscipline ==
    \A t \in Threads :
        \A i \in 1..Len(held[t]) : \A j \in 1..Len(held[t]) :
            i < j => LockRank(held[t][i]) < LockRank(held[t][j])

\* C32: every push_back, clear, insertion, erase or sort on g_pendingChanges or
\* g_inProgressUpdates is made by a thread that owns the container's mutex at
\* that moment, also while cleanupChangeTracking runs during the shutdown and
\* the other threads are still running.
C32_MutationUnderLock ==
    [][\A t \in Threads :
           (AtStep(t, "mutate") /\ tpc'[t] = Tail(tpc[t]))
           => \E i \in 1..Len(held[t]) : held[t][i] = MutexOf(Head(tpc[t])[2])]_vars

\* the threads a thread is waiting for: the owner of the mutex it wants, or
\* the thread whose end it waits for
WaitsFor(t) ==
    IF AtStep(t, "wait")
    THEN Owners(Head(tpc[t])[2]) \ {t}
    ELSE IF AtStep(t, "join") /\ ~Exited(Head(tpc[t])[2])
    THEN {Head(tpc[t])[2]}
    ELSE {}

C39_NoAccessAfterUnmap ==
    spc # "stray"

\* C40: receiving the probe of connectToRemoteNode changes no byte of the
\* region, invokes no network callback and neither creates nor modifies a
\* record of g_inProgressUpdates, whatever msgType and updateId it carries.
C40_ProbeLeavesStateUnchanged ==
    [][(received' # received /\ received'[Len(received')].memoryName = ForeignName)
           => /\ memB' = memB
              /\ callbacks' = callbacks
              /\ g_inProgressUpdates' = g_inProgressUpdates]_vars

====
